---------------------------- MODULE Spec2Model ----------------------------
(***************************************************************************)
(* Glossary phrase index and phrase matcher of the medical-writing agent   *)
(* (api/tools/glossary_service/glossary_service.py).                       *)
(*                                                                         *)
(* A Python str is a sequence of characters; a character is a one-letter   *)
(* TLA+ string, except the two code points outside ASCII that the model    *)
(* needs, which are named by their code point: "U+0130" (LATIN CAPITAL     *)
(* LETTER I WITH DOT ABOVE) and "U+0307" (COMBINING DOT ABOVE).            *)
(* Python offsets are 0-based and half-open; Seq indices are 1-based.      *)
(***************************************************************************)
EXTENDS Integers, Sequences, FiniteSets, TLC

(***************************************************************************)
(* Characters and str primitives                                           *)
(***************************************************************************)

UpperLetters == <<"A","B","C","D","E","F","G","H","I","J","K","L","M",
                  "N","O","P","Q","R","S","T","U","V","W","X","Y","Z">>

LowerLetters == <<"a","b","c","d","e","f","g","h","i","j","k","l","m",
                  "n","o","p","q","r","s","t","u","v","w","x","y","z">>

Range(f) == { f[i] : i \in DOMAIN f }

\* str.lower() of one character: a sequence, because U+0130 lowers to the
\* two code points "i" U+0307.
LowerChar(c) ==
    IF c = "U+0130" THEN <<"i", "U+0307">>
    ELSE IF \E k \in DOMAIN UpperLetters : UpperLetters[k] = c
         THEN << LowerLetters[CHOOSE k \in DOMAIN UpperLetters : UpperLetters[k] = c] >>
         ELSE << c >>

\* str.lower()
RECURSIVE Lower(_)
Lower(s) == IF s = <<>> THEN <<>> ELSE LowerChar(Head(s)) \o Lower(Tail(s))

\* \w of a Python str pattern: [a-zA-Z0-9_] and whatever str.isalnum()
\* accepts; U+0130 is a letter, U+0307 is a combining mark and is not.
IsWordChar(c) ==
    \/ c \in Range(UpperLetters)
    \/ c \in Range(LowerLetters)
    \/ c \in {"0","1","2","3","4","5","6","7","8","9","_"}
    \/ c = "U+0130"

\* \s and the characters str.strip() removes
IsSpace(c) == c \in {" ", "\t"}

Min(a, b) == IF a <= b THEN a ELSE b

\* s[i:j] for 0 <= i, 0 <= j: Python clamps both ends to len(s)
Slice(s, i, j) == SubSeq(s, Min(i, Len(s)) + 1, Min(j, Len(s)))

\* str.strip()
RECURSIVE LStrip(_)
LStrip(s) == IF s # <<>> /\ IsSpace(Head(s)) THEN LStrip(Tail(s)) ELSE s

RECURSIVE RStrip(_)
RStrip(s) == IF s # <<>> /\ IsSpace(s[Len(s)])
             THEN RStrip(SubSeq(s, 1, Len(s) - 1)) ELSE s

Strip(s) == RStrip(LStrip(s))

(***************************************************************************)
(* GlossaryService._generate_aliases                                       *)
(***************************************************************************)

\* re.search(r'(.+)\s\((.+)\)', t): the 0-based triples <<st, p, q>> at
\* which the pattern can match: group 1 is t[st:p], t[p] is the \s, t[p+1]
\* the "(", group 2 is t[p+2:q] and t[q] the ")"; both groups are .+ and so
\* hold at least one character.  (No character of the model is a newline,
\* so . matches every character.)
ParenCandidates(t) ==
    { c \in (0 .. Len(t)) \X (0 .. Len(t)) \X (0 .. Len(t)) :
        /\ c[1] < c[2]
        /\ c[2] + 3 <= c[3]
        /\ c[3] < Len(t)
        /\ IsSpace(t[c[2] + 1])
        /\ t[c[2] + 2] = "("
        /\ t[c[3] + 1] = ")" }

\* The match re.search returns: the leftmost start, then greedy group 1
\* (the largest p), then greedy group 2 (the largest q).
ParenMatch(t) ==
    LET C  == ParenCandidates(t)
        st == CHOOSE a \in { c[1] : c \in C } : \A c \in C : a <= c[1]
        p  == CHOOSE a \in { c[2] : c \in { d \in C : d[1] = st } } :
                  \A c \in { d \in C : d[1] = st } : a >= c[2]
        q  == CHOOSE a \in { c[3] : c \in { d \in C : d[1] = st /\ d[2] = p } } :
                  \A c \in { d \in C : d[1] = st /\ d[2] = p } : a >= c[3]
    IN  << st, p, q >>

_generate_aliases(term) ==
    LET lower_term == Lower(term)
    IN  IF ParenCandidates(lower_term) = {}
        THEN { lower_term }
        ELSE LET m          == ParenMatch(lower_term)
                 main_part  == Strip(Slice(lower_term, m[1], m[2]))
                 alias_part == Strip(Slice(lower_term, m[2] + 2, m[3]))
             IN  { lower_term, main_part, alias_part }

(***************************************************************************)
(* Regular-expression primitives of the two matchers                       *)
(***************************************************************************)

\* Whether the character at 0-based offset k of text exists and is a \w
WordAt(text, k) == k >= 0 /\ k < Len(text) /\ IsWordChar(text[k + 1])

\* A \b that also holds at both ends of every text, the empty one included
WordBoundaryAtEdges(text, i) ==
    i = 0 \/ i = Len(text) \/ WordAt(text, i - 1) # WordAt(text, i)

\* \b at 0-based position i: exactly one of the characters before and
\* after the position is a word character (the text's edges count as
\* non-word characters)
WordBoundary(text, i) == WordAt(text, i - 1) # WordAt(text, i)

\* r'\b' + re.escape(phrase) + r'\b' matches text at offset s: re.escape
\* makes every character of the phrase match literally
MatchAt(phrase, text, s) ==
    /\ s >= 0
    /\ s + Len(phrase) <= Len(text)
    /\ WordBoundary(text, s)
    /\ Slice(text, s, s + Len(phrase)) = phrase
    /\ WordBoundary(text, s + Len(phrase))

\* re.search(pattern, text) is not None
Search(phrase, text) == \E s \in 0 .. Len(text) : MatchAt(phrase, text, s)

\* re.finditer(pattern, text) from offset pos on: the leftmost match, then
\* the scan resumes where that match ended, so occurrences that overlap a
\* match already yielded are not visited; after an empty match the scan
\* moves one character on.
RECURSIVE FindIterFrom(_, _, _)
FindIterFrom(phrase, text, pos) ==
    LET hits == { s \in pos .. Len(text) : MatchAt(phrase, text, s) }
    IN  IF hits = {} THEN <<>>
        ELSE LET s == CHOOSE x \in hits : \A y \in hits : x <= y
                 e == s + Len(phrase)
             IN  << <<s, e>> >> \o FindIterFrom(phrase, text, IF e = s THEN s + 1 ELSE e)

FindIter(phrase, text) == FindIterFrom(phrase, text, 0)

\* str.replace(phrase, ""): every non-overlapping literal occurrence, left
\* to right, is removed; replacing the empty string by the empty string
\* leaves the text as it is.
RECURSIVE Replace(_, _)
Replace(text, phrase) ==
    IF phrase = <<>> \/ Len(text) < Len(phrase) THEN text
    ELSE IF SubSeq(text, 1, Len(phrase)) = phrase
         THEN Replace(SubSeq(text, Len(phrase) + 1, Len(text)), phrase)
         ELSE << Head(text) >> \o Replace(Tail(text), phrase)

(***************************************************************************)
(* The span-reporting sweep (find_and_define_phrases_in_text_enhanced)     *)
(***************************************************************************)

\* A test that lets every occurrence through
OverlapsNever(s, e, ranges) == FALSE

\* any(start_pos < existing_end and end_pos > existing_start for ...)
Overlaps(s, e, ranges) ==
    \E k \in DOMAIN ranges : s < ranges[k][2] /\ e > ranges[k][1]

\* self.phrase_index[phrase] on a defaultdict(list): a missing key is
\* inserted with an empty list, and the (possibly new) list is returned
IndexAfterGet(index, key) ==
    IF key \in DOMAIN index THEN index ELSE index @@ (key :> <<>>)

IndexGet(index, key) == IF key \in DOMAIN index THEN index[key] ELSE <<>>

SeqContains(seq, x) == \E k \in DOMAIN seq : seq[k] = x

\* An append that does not look for x first
AppendAlways(seq, x) == Append(seq, x)

AppendIfAbsent(seq, x) == IF SeqContains(seq, x) THEN seq ELSE Append(seq, x)

\* Lines 130-155 for one definition of an accepted occurrence: found_terms
\* is the insertion-ordered dict keyed by main_term, kept as the sequence
\* of its values.
AddDefinition(found, definition, match_info) ==
    LET main_term == definition.main_term
        found1 == IF \E k \in DOMAIN found : found[k].main_term = main_term
                  THEN found
                  ELSE Append(found, [main_term |-> main_term,
                                      definitions |-> <<>>,
                                      matches_in_text |-> <<>>])
        k == CHOOSE j \in DOMAIN found1 : found1[j].main_term = main_term
        def_info == [plain_alternative |-> definition.plain_alternative,
                     source |-> definition.source]
    IN  [found1 EXCEPT
           ![k].definitions = AppendIfAbsent(@, def_info),
           ![k].matches_in_text = AppendIfAbsent(@, match_info)]

RECURSIVE AddDefinitions(_, _, _)
AddDefinitions(found, definitions, match_info) ==
    IF definitions = <<>> THEN found
    ELSE AddDefinitions(AddDefinition(found, Head(definitions), match_info),
                        Tail(definitions), match_info)

\* A lookup under the text as the caller wrote it
LookupKeyFromText(phrase, original_text, s, e) == Slice(original_text, s, e)

\* The key the definitions of an accepted occurrence are looked up under
LookupKey(phrase, original_text, s, e) == phrase

\* The body of the inner loop (lines 118-158) for one occurrence [s, e) of
\* phrase; st carries found_terms, matched_ranges and phrase_index.
ProcessMatch(st, phrase, original_text, s, e) ==
    IF Overlaps(s, e, st.matched_ranges) THEN st
    ELSE LET key == LookupKey(phrase, original_text, s, e)
             match_info == [alias_found |-> Slice(original_text, s, e),
                            location_start |-> s,
                            location_end |-> e]
         IN  [found_terms |-> AddDefinitions(st.found_terms,
                                            IndexGet(st.phrase_index, key),
                                            match_info),
              matched_ranges |-> Append(st.matched_ranges, <<s, e>>),
              phrase_index |-> IndexAfterGet(st.phrase_index, key)]

RECURSIVE ProcessMatches(_, _, _, _)
ProcessMatches(st, phrase, original_text, matches) ==
    IF matches = <<>> THEN st
    ELSE ProcessMatches(
             ProcessMatch(st, phrase, original_text, Head(matches)[1], Head(matches)[2]),
             phrase, original_text, Tail(matches))

\* One iteration of the outer loop (lines 114-158): every occurrence that
\* finditer yields for phrase, in the lowercased text
ProcessPhrase(st, phrase, original_text) ==
    ProcessMatches(st, phrase, original_text, FindIter(phrase, Lower(original_text)))

\* sorted(list(all_known_phrases), key=len, reverse=True) is a stable sort
\* of the set's iteration order: order is such a sort when it lists every
\* phrase once, longest first.  Which of them it is, among phrases of one
\* length, is the set's iteration order.
IsLengthSorted(order, phrases) ==
    /\ Len(order) = Cardinality(phrases)
    /\ Range(order) = phrases
    /\ \A i, j \in DOMAIN order : i < j => Len(order[i]) >= Len(order[j])

(***************************************************************************)
(* State                                                                   *)
(***************************************************************************)

VARIABLES
    directory,          \* the glossaries directory: a set of files
    build_pc,           \* "new", "loading", "ready" or "failed" (__init__ raised)
    listing,            \* what os.listdir returned for the running build
    file_idx,           \* position of the for loop over listing (1-based)
    rec_pos,            \* position of the for loop over the file's data
    phrase_index,       \* self.phrase_index: alias -> list of definition records
    all_known_phrases,  \* self.all_known_phrases
    iter_order,         \* iteration order of the all_known_phrases set object
    builds,             \* number of GlossaryService objects constructed
    prev_index,         \* phrase_index of the service constructed before, if one was
    pc,                 \* position of the caller of the matchers
    text,               \* argument of the running matcher call
    todo,               \* phrases of sorted_phrases still to visit
    found_terms,        \* enhanced matcher: dict main_term -> FoundTerm
    matched_ranges,     \* enhanced matcher: accepted ranges
    text_to_scan,       \* legacy matcher: the text with found phrases removed
    found_phrases,      \* legacy matcher: dict phrase -> definitions
    result,             \* what the last finished matcher call returned
    alias_pc,           \* "idle", "called" or "returned": a direct _generate_aliases call
    alias_term,         \* its argument
    aliases,            \* its result
    pls_pc,             \* "idle", "called" or "returned": a PLSEvaluationTool.execute call
    parameters,         \* its argument
    analysis,           \* what the linguistic tool answers to it
    thresholds_file,    \* the threshold table file as it is on disk
    _thresholds,        \* PLSEvaluationTool._thresholds: the loaded table, if loaded
    response,           \* the ToolResponse it returned
    _initialized,       \* GlossaryServiceSingleton._initialized
    _service,           \* GlossaryServiceSingleton._service: an object id, 0 for None
    services,           \* the GlossaryService objects constructed by get_service
    callers,            \* each caller of the singleton: where it is and what it holds
    returns,            \* the values that get_service calls have returned
    calls,              \* number of get_service calls made
    resets,             \* number of reset calls made
    _tools,             \* ToolRegistry._tools: the dict, as its items in insertion order
    registrations,      \* the register calls made so far, in call order
    answer,             \* what the last call on the registry returned
    root,               \* whether the directory SUMMARIES_DIR exists
    tree,               \* SUMMARIES_DIR: model -> summary id -> folder
    saved,              \* the (model, id) pairs saved and not deleted since
    draft_log,          \* (model, id) -> the drafts save_draft stored since the last deletion
    store_ops,          \* number of calls made that write to SUMMARIES_DIR
    reply,              \* the HTTP response of the last call on the summaries router
    threads             \* each thread that calls the matchers of the built service: its call frame

build_vars == << directory, build_pc, listing, file_idx, rec_pos, phrase_index,
                 all_known_phrases, iter_order, builds, prev_index >>

call_vars == << pc, text, todo, found_terms, matched_ranges, text_to_scan,
                found_phrases, result >>

alias_vars == << alias_pc, alias_term, aliases >>

pls_vars == << pls_pc, parameters, analysis, thresholds_file, _thresholds, response >>

registry_vars == << _tools, registrations, answer >>

store_vars == << root, tree, saved, draft_log, store_ops, reply >>

\* The state of the application around the tools, the threads that call
\* the matchers side by side among it
app_vars == << registry_vars, store_vars, threads >>

\* The state outside the singleton and the tool that holds its service
rest_vars == << build_vars, call_vars, alias_vars, pls_vars, app_vars >>

single_vars == << _initialized, _service, services, callers, returns, calls, resets >>

\* The state outside the glossary service
other_vars == << pls_vars, single_vars, app_vars >>

vars == << build_vars, call_vars, alias_vars, other_vars >>

None == "None"

(***************************************************************************)
(* Inputs                                                                  *)
(***************************************************************************)

\* Bounds of the enumerated inputs
MaxTextLen == 3
MaxTermLen == 5
MaxRecords == 2
MaxBuilds == 2
MaxCallers == 2
MaxCalls == 2
MaxResets == 1
MaxThreads == 2

\* The callers of the singleton: request handlers, the application start
Callers == 1 .. MaxCallers

\* A caller that has called nothing yet: it runs no call, builds no
\* object, has no GlossaryTool (-1) and no response of one to parameters
IdleCaller ==
    [pc |-> "idle", op |-> "none", svc |-> 0, tool |-> -1,
     params |-> <<>>, resp |-> [tool_name |-> "none"]]

\* The threads that call the matchers of one service object
Threads == 1 .. MaxThreads

\* A thread that runs no matcher call
IdleThread ==
    [pc |-> "idle", text |-> <<>>, todo |-> <<>>, found_terms |-> <<>>,
     matched_ranges |-> <<>>, text_to_scan |-> <<>>, found_phrases |-> <<>>,
     result |-> None]

RECURSIVE SeqsUpTo(_, _)
SeqsUpTo(S, n) ==
    IF n = 0 THEN { <<>> }
    ELSE LET shorter == SeqsUpTo(S, n - 1)
         IN  shorter \cup { Append(q, c) : q \in { x \in shorter : Len(x) = n - 1 }, c \in S }

\* The orders in which a collection can be listed
Perms(S) ==
    { q \in [1 .. Cardinality(S) -> S] : \A i, j \in DOMAIN q : i # j => q[i] # q[j] }

TextChars == { "a", "b", "A", " ", "(", ")", "U+0130" }

TermChars == { "a", "B", " ", "(", ")", "U+0130" }

OverlapText == <<"T","h","i","s"," ","c","h","r","o","n","i","c"," ","d","i","s","e","a","s","e"," ","i","s"," ","n","o","t"," ","j","u","s","t"," ","a","n","y"," ","d","i","s","e","a","s","e",".">>

CaseText == <<"T","h","e"," ","s","t","u","d","y"," ","o","n"," ","M","Y","O","C","A","R","D","I","A","L"," ","I","N","F","A","R","C","T","I","O","N"," ","s","h","o","w","e","d"," ","c","l","e","a","r"," ","r","e","s","u","l","t","s",".">>

SkipText == <<"c"," ","a"," ","a"," ","b","b"," ","a"," ","a"," ","a">>

\* "ab" stands alone and inside the word "bab"
ElisionText == <<"a","b"," ","b","a","b">>

\* A term with a parenthesised part, written out in full
ParenText == <<"a"," ","(","b",")">>

\* Two phrases of one length that share the middle word
TieText == <<"a","b"," ","c","d"," ","e","f">>

ExampleTexts == { OverlapText, CaseText, SkipText, ElisionText, ParenText, TieText }

Texts == SeqsUpTo(TextChars, MaxTextLen) \cup ExampleTexts

Rec(term, plain) == [term |-> term, plain_alternative |-> plain]

JsonFile(name, data) == [name |-> name, json |-> TRUE, data |-> data]

OtherFile(name) == [name |-> name, json |-> FALSE, data |-> <<>>]

\* The records of the glossary files of the index-build runs: terms with
\* and without a parenthesised part, an empty term, a record without
\* "term" and a record without "plain_alternative"
RecordPool ==
    { Rec(t, p) : t \in { <<"a">>, <<"A"," ","(","b",")">>, <<>> }, p \in { "p", "q" } }
        \cup { [plain_alternative |-> "p"], [term |-> <<"a">>] }

BuildDirectories ==
    { { JsonFile("s1", d1), JsonFile("s2", d2), OtherFile("README") } :
        d1 \in SeqsUpTo(RecordPool, MaxRecords), d2 \in SeqsUpTo(RecordPool, 1) }

(***************************************************************************)
(* GlossaryService.__init__ and _load_and_index                            *)
(***************************************************************************)

\* entry.get("term", "")
EntryTerm(entry) == IF "term" \in DOMAIN entry THEN entry.term ELSE <<>>

\* An index whose lists are overwritten rather than appended to
IndexRecordReplacing(index, als, definition_record) ==
    [ a \in DOMAIN index \cup als |->
        IF a \in als THEN << definition_record >> ELSE index[a] ]

\* for alias in aliases: self.phrase_index[alias].append(definition_record)
IndexRecord(index, als, definition_record) ==
    [ a \in DOMAIN index \cup als |->
        IF a \in als THEN Append(IndexGet(index, a), definition_record) ELSE index[a] ]

\* The file and the record the two for loops stand at
CurrentFile == listing[file_idx]

\* GlossaryService(glossaries_dir): lines 15-16, then os.listdir, whose
\* order is whatever the file system gives
Construct ==
    /\ build_pc = "new"
    /\ builds < MaxBuilds
    /\ builds' = builds + 1
    /\ build_pc' = "loading"
    /\ phrase_index' = <<>>
    /\ all_known_phrases' = {}
    /\ listing' \in Perms(directory)
    /\ file_idx' = 1
    /\ rec_pos' = 1
    /\ UNCHANGED << directory, iter_order, prev_index, call_vars, alias_vars >>
    /\ UNCHANGED other_vars

\* A second service built from the same directory (a test phase, or the
\* singleton after reset); the index of the one before is remembered
Reconstruct ==
    /\ build_pc \in { "ready", "failed" }
    /\ pc = "idle"
    /\ builds < MaxBuilds
    /\ builds' = builds + 1
    /\ prev_index' = IF build_pc = "ready"
                     THEN [built |-> TRUE, index |-> phrase_index]
                     ELSE prev_index
    /\ build_pc' = "loading"
    /\ phrase_index' = <<>>
    /\ all_known_phrases' = {}
    /\ listing' \in Perms(directory)
    /\ file_idx' = 1
    /\ rec_pos' = 1
    /\ UNCHANGED << directory, iter_order, call_vars, alias_vars >>
    /\ UNCHANGED other_vars

\* if filename.endswith('.json') is false: the file is passed over
SkipFile ==
    /\ build_pc = "loading"
    /\ file_idx <= Len(listing)
    /\ ~ CurrentFile.json
    /\ file_idx' = file_idx + 1
    /\ rec_pos' = 1
    /\ UNCHANGED << directory, build_pc, listing, phrase_index, all_known_phrases,
                    iter_order, builds, prev_index, call_vars, alias_vars >>
    /\ UNCHANGED other_vars

\* One iteration of for entry in data (lines 52-68)
LoadRecord ==
    /\ build_pc = "loading"
    /\ file_idx <= Len(listing)
    /\ CurrentFile.json
    /\ rec_pos <= Len(CurrentFile.data)
    /\ LET entry == CurrentFile.data[rec_pos]
           original_term == EntryTerm(entry)
       IN  IF original_term = <<>>
           THEN \* continue
                /\ rec_pos' = rec_pos + 1
                /\ UNCHANGED << build_pc, phrase_index, all_known_phrases >>
           ELSE IF "plain_alternative" \notin DOMAIN entry
           THEN \* entry["plain_alternative"] raises KeyError out of __init__
                /\ build_pc' = "failed"
                /\ UNCHANGED << rec_pos, phrase_index, all_known_phrases >>
           ELSE LET definition_record ==
                        [main_term |-> original_term,
                         plain_alternative |-> entry.plain_alternative,
                         source |-> CurrentFile.name]
                    als == _generate_aliases(original_term)
                IN  /\ phrase_index' = IndexRecord(phrase_index, als, definition_record)
                    /\ all_known_phrases' = all_known_phrases \cup als
                    /\ rec_pos' = rec_pos + 1
                    /\ UNCHANGED build_pc
    /\ UNCHANGED << directory, listing, file_idx, iter_order, builds, prev_index,
                    call_vars, alias_vars >>
    /\ UNCHANGED other_vars

\* The file's data is exhausted: the outer loop moves to the next file
NextFile ==
    /\ build_pc = "loading"
    /\ file_idx <= Len(listing)
    /\ CurrentFile.json
    /\ rec_pos > Len(CurrentFile.data)
    /\ file_idx' = file_idx + 1
    /\ rec_pos' = 1
    /\ UNCHANGED << directory, build_pc, listing, phrase_index, all_known_phrases,
                    iter_order, builds, prev_index, call_vars, alias_vars >>
    /\ UNCHANGED other_vars

\* _load_and_index returns and __init__ ends.  From here on the set object
\* all_known_phrases is what it stays; the order in which it iterates is
\* the interpreter's (string hashing), kept here as far as the stable
\* length sort of the matchers preserves it.
FinishBuild ==
    /\ build_pc = "loading"
    /\ file_idx > Len(listing)
    /\ build_pc' = "ready"
    /\ iter_order' \in { o \in Perms(all_known_phrases) :
                            IsLengthSorted(o, all_known_phrases) }
    /\ UNCHANGED << directory, listing, file_idx, rec_pos, phrase_index,
                    all_known_phrases, builds, prev_index, call_vars, alias_vars >>
    /\ UNCHANGED other_vars

BuildNext == Construct \/ SkipFile \/ LoadRecord \/ NextFile \/ FinishBuild

InitWith(dirs) ==
    /\ directory \in dirs
    /\ build_pc = "new"
    /\ listing = <<>>
    /\ file_idx = 1
    /\ rec_pos = 1
    /\ phrase_index = <<>>
    /\ all_known_phrases = {}
    /\ iter_order = <<>>
    /\ builds = 0
    /\ prev_index = [built |-> FALSE]
    /\ pc = "idle"
    /\ text = <<>>
    /\ todo = <<>>
    /\ found_terms = <<>>
    /\ matched_ranges = <<>>
    /\ text_to_scan = <<>>
    /\ found_phrases = <<>>
    /\ result = None
    /\ alias_pc = "idle"
    /\ alias_term = <<>>
    /\ aliases = {}
    /\ pls_pc = "idle"
    /\ parameters = <<>>
    /\ analysis = [status |-> "none"]
    /\ thresholds_file = [exists |-> FALSE]
    /\ _thresholds = [loaded |-> FALSE]
    /\ response = [tool_name |-> "none"]
    /\ _initialized = FALSE
    /\ _service = 0
    /\ services = <<>>
    /\ callers = [t \in Callers |-> IdleCaller]
    /\ returns = {}
    /\ calls = 0
    /\ resets = 0
    /\ _tools = <<>>
    /\ registrations = <<>>
    /\ answer = [op |-> "none"]
    /\ root = FALSE
    /\ tree = <<>>
    /\ saved = {}
    /\ draft_log = <<>>
    /\ store_ops = 0
    /\ reply = [op |-> "none"]
    /\ threads = [t \in Threads |-> IdleThread]

\* Index builds alone: every directory of BuildDirectories, built and
\* built again
InitBuild == InitWith(BuildDirectories)

SpecBuild == InitBuild /\ [][BuildNext \/ Reconstruct]_vars

(***************************************************************************)
(* The matchers                                                            *)
(***************************************************************************)

\* Where x goes in a sequence kept longest first: behind every element at
\* least as long (the sort is stable)
RECURSIVE InsertByLen(_, _)
InsertByLen(sorted, x) ==
    IF sorted = <<>> THEN << x >>
    ELSE IF Len(Head(sorted)) >= Len(x)
         THEN << Head(sorted) >> \o InsertByLen(Tail(sorted), x)
         ELSE << x >> \o sorted

\* sorted(list(self.all_known_phrases), key=len, reverse=True)
RECURSIVE SortedByLen(_)
SortedByLen(order) ==
    IF order = <<>> THEN <<>>
    ELSE InsertByLen(SortedByLen(SubSeq(order, 1, Len(order) - 1)), order[Len(order)])

\* find_and_define_phrases_in_text_enhanced(text), lines 104-112
CallEnhanced ==
    /\ build_pc = "ready"
    /\ pc = "idle"
    /\ \E t \in Texts : text' = t
    /\ pc' = "enhanced"
    /\ todo' = SortedByLen(iter_order)
    /\ found_terms' = <<>>
    /\ matched_ranges' = <<>>
    /\ text_to_scan' = <<>>
    /\ found_phrases' = <<>>
    /\ result' = None
    /\ UNCHANGED << build_vars, alias_vars >>
    /\ UNCHANGED other_vars

\* One iteration of for phrase in sorted_phrases (lines 114-158)
StepEnhanced ==
    /\ pc = "enhanced"
    /\ todo # <<>>
    /\ LET st == ProcessPhrase([found_terms |-> found_terms,
                                matched_ranges |-> matched_ranges,
                                phrase_index |-> phrase_index],
                               Head(todo), text)
       IN  /\ found_terms' = st.found_terms
           /\ matched_ranges' = st.matched_ranges
           /\ phrase_index' = st.phrase_index
    /\ todo' = Tail(todo)
    /\ UNCHANGED << directory, build_pc, listing, file_idx, rec_pos, all_known_phrases,
                    iter_order, builds, prev_index, pc, text, text_to_scan,
                    found_phrases, result, alias_vars >>
    /\ UNCHANGED other_vars

\* Lines 160-169
ReturnEnhanced ==
    /\ pc = "enhanced"
    /\ todo = <<>>
    /\ result' = [analysis_summary |->
                     [total_unique_phrases_found |-> Len(found_terms),
                      text_character_length |-> Len(text)],
                  found_terms |-> found_terms]
    /\ pc' = "enhanced_done"
    /\ UNCHANGED << build_vars, text, todo, found_terms, matched_ranges,
                    text_to_scan, found_phrases, alias_vars >>
    /\ UNCHANGED other_vars

\* find_and_define_phrases_in_text(text), lines 76-83
CallLegacy ==
    /\ build_pc = "ready"
    /\ pc = "idle"
    /\ \E t \in Texts : /\ text' = t
                        /\ text_to_scan' = Lower(t)
    /\ pc' = "legacy"
    /\ todo' = SortedByLen(iter_order)
    /\ found_phrases' = <<>>
    /\ found_terms' = <<>>
    /\ matched_ranges' = <<>>
    /\ result' = None
    /\ UNCHANGED << build_vars, alias_vars >>
    /\ UNCHANGED other_vars

\* One iteration of for phrase in sorted_phrases (lines 85-93);
\* found_phrases is the insertion-ordered dict, kept as its items
StepLegacy ==
    /\ pc = "legacy"
    /\ todo # <<>>
    /\ LET phrase == Head(todo)
       IN  IF Search(phrase, text_to_scan)
           THEN /\ found_phrases' = Append(found_phrases,
                                           [phrase |-> phrase,
                                            definitions |-> IndexGet(phrase_index, phrase)])
                /\ phrase_index' = IndexAfterGet(phrase_index, phrase)
                /\ text_to_scan' = Replace(text_to_scan, phrase)
           ELSE UNCHANGED << found_phrases, phrase_index, text_to_scan >>
    /\ todo' = Tail(todo)
    /\ UNCHANGED << directory, build_pc, listing, file_idx, rec_pos, all_known_phrases,
                    iter_order, builds, prev_index, pc, text, found_terms,
                    matched_ranges, result, alias_vars >>
    /\ UNCHANGED other_vars

\* Line 95
ReturnLegacy ==
    /\ pc = "legacy"
    /\ todo = <<>>
    /\ result' = found_phrases
    /\ pc' = "legacy_done"
    /\ UNCHANGED << build_vars, text, todo, found_terms, matched_ranges,
                    text_to_scan, found_phrases, alias_vars >>
    /\ UNCHANGED other_vars

\* The caller is done with what the matcher returned (the request ends)
EndCall ==
    /\ pc \in { "enhanced_done", "legacy_done" }
    /\ pc' = "idle"
    /\ text' = <<>>
    /\ found_terms' = <<>>
    /\ matched_ranges' = <<>>
    /\ text_to_scan' = <<>>
    /\ found_phrases' = <<>>
    /\ result' = None
    /\ UNCHANGED << build_vars, todo, alias_vars >>
    /\ UNCHANGED other_vars

EnhancedNext == CallEnhanced \/ StepEnhanced \/ ReturnEnhanced

LegacyNext == CallLegacy \/ StepLegacy \/ ReturnLegacy

\* The glossaries of the matcher runs.  One holds the phrases of the
\* repository's overlap and case tests; the others hold one term in s1
\* and none or one in s2, over the letters of TextChars.
ExampleDirectory ==
    { JsonFile("s1", << Rec(<<"d","i","s","e","a","s","e">>, "p"),
                        Rec(<<"c","h","r","o","n","i","c"," ","d","i","s","e","a","s","e">>, "p"),
                        Rec(<<"M","y","o","c","a","r","d","i","a","l"," ","I","n","f","a","r","c","t","i","o","n">>, "p") >>),
      OtherFile("README") }

\* A phrase that overlaps itself ("a a"), a longer phrase that holds it
\* and a longer phrase that ends in its first word
SkipDirectory ==
    { JsonFile("s1", << Rec(<<"c"," ","a"," ","a">>, "p"),
                        Rec(<<"b","b"," ","a">>, "p"),
                        Rec(<<"a"," ","a">>, "p") >>) }

\* A phrase ("ab") and a shorter one ("b") that is what another word of
\* ElisionText becomes when the longer phrase is cut out of it
ElisionDirectory ==
    { JsonFile("s1", << Rec(<<"a","b">>, "p"), Rec(<<"b">>, "p") >>) }

MatchTerms1 == { <<"a">>, <<"a","b">>, <<"a"," ","a">>, <<"b"," ","a">>,
                 <<"a"," ","(","b",")">>, <<"a"," ","("," ",")">> }

MatchTerms2 == { <<"a">>, <<"a"," ","a">> }

\* Two phrases of one length that overlap in TieText
TieDirectory ==
    { JsonFile("s1", << Rec(<<"a","b"," ","c","d">>, "p"),
                        Rec(<<"c","d"," ","e","f">>, "q") >>) }

MatchDirectories ==
    { ExampleDirectory, SkipDirectory, ElisionDirectory, TieDirectory }
        \cup { { JsonFile("s1", << Rec(t1, "p") >>), JsonFile("s2", d2) } :
                 t1 \in MatchTerms1,
                 d2 \in { <<>> } \cup { << Rec(t2, "q") >> : t2 \in MatchTerms2 } }

Init == InitWith(MatchDirectories)

Next == BuildNext \/ EnhancedNext \/ LegacyNext \/ EndCall

Spec == Init /\ [][Next]_vars

(***************************************************************************)
(* _generate_aliases called on its own                                     *)
(***************************************************************************)

\* Nesting depth of parentheses after the first k characters of t
RECURSIVE ParenDepth(_, _)
ParenDepth(t, k) ==
    IF k = 0 THEN 0
    ELSE ParenDepth(t, k - 1)
             + (IF t[k] = "(" THEN 1 ELSE IF t[k] = ")" THEN -1 ELSE 0)

NestedTerm == <<"A"," ","(","B"," ","(","C",")",")">>

PertussisTerm == <<"P","e","r","t","u","s","s","i","s"," ","(","W","h","o","o","p","i","n","g",
                   " ","C","o","u","g","h",")">>

TrailingTerm == <<"f","o","o"," ","(","b","a","r",")"," ","b","a","z">>

ExampleTerms == { NestedTerm, PertussisTerm, TrailingTerm }

\* The terms the generator is called with: every term over TermChars up
\* to MaxTermLen characters, and three longer ones
AliasTerms == SeqsUpTo(TermChars, MaxTermLen) \cup ExampleTerms

CallAliases ==
    /\ alias_pc = "idle"
    /\ \E t \in AliasTerms : alias_term' = t
    /\ alias_pc' = "called"
    /\ UNCHANGED << build_vars, call_vars, aliases >>
    /\ UNCHANGED other_vars

ReturnAliases ==
    /\ alias_pc = "called"
    /\ aliases' = _generate_aliases(alias_term)
    /\ alias_pc' = "returned"
    /\ UNCHANGED << build_vars, call_vars, alias_term >>
    /\ UNCHANGED other_vars

InitAlias == InitWith({ {} })

SpecAlias == InitAlias /\ [][CallAliases \/ ReturnAliases]_vars

(***************************************************************************)
(* A malformed index                                                       *)
(***************************************************************************)

\* phrase_index and all_known_phrases are plain public attributes (lines
\* 15-16) that nothing freezes.  No code of the service leaves an alias in
\* all_known_phrases without entries in phrase_index; the state arises only
\* when a holder of the service adds a phrase to the set.  This is that
\* step, taken between two calls.
TamperPhrases == { <<"b">> }

Tamper ==
    /\ build_pc = "ready"
    /\ pc = "idle"
    /\ \E ph \in TamperPhrases :
          /\ ph \notin all_known_phrases
          /\ ph \notin DOMAIN phrase_index
          /\ all_known_phrases' = all_known_phrases \cup { ph }
          /\ iter_order' \in { o \in Perms(all_known_phrases \cup { ph }) :
                                  IsLengthSorted(o, all_known_phrases \cup { ph }) }
    /\ UNCHANGED << directory, build_pc, listing, file_idx, rec_pos, phrase_index,
                    builds, prev_index, call_vars, alias_vars >>
    /\ UNCHANGED other_vars

SpecMalformed == Init /\ [][Next \/ Tamper]_vars

(***************************************************************************)
(* Properties of the span-reporting matcher                                *)
(***************************************************************************)

\* Every whole-word occurrence of phrase in the lowercased text, as ranges
Occurrences(phrase, lower_text) ==
    { << s, s + Len(phrase) >> :
        s \in { x \in 0 .. Len(lower_text) : MatchAt(phrase, lower_text, x) } }

\* The FoundTerms and the spans of the result of the finished call
ResultTerms == Range(result.found_terms)

SpansOf(found_term) == Range(found_term.matches_in_text)

ReportedRanges ==
    { << m.location_start, m.location_end >> :
        m \in UNION { SpansOf(ft) : ft \in ResultTerms } }

AcceptedRanges == Range(matched_ranges)

RangesOverlap(a, b) == a[1] < b[2] /\ b[1] < a[2]

SpanUnder(main_term, s, e) ==
    \E ft \in ResultTerms :
        /\ ft.main_term = main_term
        /\ \E m \in SpansOf(ft) : m.location_start = s /\ m.location_end = e

DiseaseTerm == <<"d","i","s","e","a","s","e">>

ChronicDiseaseTerm == <<"c","h","r","o","n","i","c"," ","d","i","s","e","a","s","e">>

\* An occurrence that lies within, and overlaps, an accepted range longer
\* than its phrase
InsideLongerAccepted(o) ==
    \E r \in AcceptedRanges :
        /\ r[2] - r[1] > o[2] - o[1]
        /\ r[1] <= o[1] /\ o[2] <= r[2]
        /\ RangesOverlap(o, r)

\* C1: after a span-reporting call, for a known phrase with an occurrence
\* inside an accepted occurrence of a longer phrase: no span is reported
\* for an inner occurrence, and every occurrence of the phrase that
\* overlaps no (other) accepted range is reported; for the overlap test's
\* text and glossary the result has [5,20) under "chronic disease",
\* [37,44) under "disease" and no [13,20).
C1_LongestMatchPriority ==
    pc = "enhanced_done" =>
        /\ \A p \in all_known_phrases :
              LET occ == Occurrences(p, Lower(text))
              IN  (\E o \in occ : InsideLongerAccepted(o)) =>
                      \A o \in occ :
                          /\ InsideLongerAccepted(o) => o \notin ReportedRanges
                          /\ (\A r \in AcceptedRanges : r # o => ~ RangesOverlap(o, r))
                                => o \in ReportedRanges
        /\ (text = OverlapText /\ directory = ExampleDirectory) =>
              /\ SpanUnder(ChronicDiseaseTerm, 5, 20)
              /\ SpanUnder(DiseaseTerm, 37, 44)
              /\ << 13, 20 >> \notin ReportedRanges

\* The overlap test's own case, which the code passes
C1_OverlapExample ==
    (pc = "enhanced_done" /\ text = OverlapText /\ directory = ExampleDirectory) =>
        /\ SpanUnder(ChronicDiseaseTerm, 5, 20)
        /\ SpanUnder(DiseaseTerm, 37, 44)
        /\ << 13, 20 >> \notin ReportedRanges

\* C2: every reported span's alias_found is the slice of the original
\* text at its offsets, and the lowercase of that slice is a key of
\* phrase_index with an entry for the FoundTerm's main_term.
C2_SpanIsAliasOfTerm ==
    pc = "enhanced_done" =>
        \A ft \in ResultTerms : \A m \in SpansOf(ft) :
            /\ m.alias_found = Slice(text, m.location_start, m.location_end)
            /\ Lower(m.alias_found) \in DOMAIN phrase_index
            /\ \E k \in DOMAIN phrase_index[Lower(m.alias_found)] :
                  phrase_index[Lower(m.alias_found)][k].main_term = ft.main_term

\* C3: no reported span is empty.
C3_NoEmptySpan ==
    pc = "enhanced_done" =>
        \A ft \in ResultTerms : \A m \in SpansOf(ft) :
            m.location_start < m.location_end

\* C4: no reported span starts or ends in the middle of a word of the
\* text the caller passed.
C4_SpansOnWordBoundaries ==
    pc = "enhanced_done" =>
        \A ft \in ResultTerms : \A m \in SpansOf(ft) :
            /\ ~ (WordAt(text, m.location_start - 1) /\ WordAt(text, m.location_start))
            /\ ~ (WordAt(text, m.location_end - 1) /\ WordAt(text, m.location_end))

\* C5: for the empty text the span-reporting matcher returns the summary
\* {0, 0} and no found terms, whatever the index.
C5_EmptyText ==
    (pc = "enhanced_done" /\ text = <<>>) =>
        result = [analysis_summary |->
                     [total_unique_phrases_found |-> 0,
                      text_character_length |-> 0],
                  found_terms |-> <<>>]

\* The empty text went through an index that holds the empty alias
C5_Witness ==
    /\ pc = "enhanced_done"
    /\ text = <<>>
    /\ <<>> \in all_known_phrases
    /\ Cardinality(all_known_phrases) >= 3

(***************************************************************************)
(* Properties of the alias generator                                       *)
(***************************************************************************)

\* The 0-based offsets of the ")" that close the "(" at offset p + 1
ClosersOf(t, p) ==
    { q \in p + 2 .. Len(t) - 1 :
        /\ t[q + 1] = ")"
        /\ ParenDepth(t, q + 1) = ParenDepth(t, p + 1) }

MatchingClose(t, p) == CHOOSE q \in ClosersOf(t, p) : \A r \in ClosersOf(t, p) : q <= r

\* The 0-based offsets p of a top-level " (": a whitespace outside every
\* parenthesis, then "(", with a non-empty <main> before it and a
\* non-empty <alt> up to the matching ")"
TopLevelOpens(t) ==
    { p \in 1 .. Len(t) - 2 :
        /\ IsSpace(t[p + 1])
        /\ t[p + 2] = "("
        /\ ParenDepth(t, p) = 0
        /\ ClosersOf(t, p) # {}
        /\ MatchingClose(t, p) >= p + 3 }

\* The alias set as the design states it: the lowercased term, and for
\* "<main> (<alt>)" also <main>, everything before the last top-level
\* " (", and <alt>, the content up to the matching ")", both trimmed
DesignAliases(term) ==
    LET t == Lower(term)
    IN  IF TopLevelOpens(t) = {} THEN { t }
        ELSE LET p == CHOOSE x \in TopLevelOpens(t) : \A y \in TopLevelOpens(t) : x >= y
                 q == MatchingClose(t, p)
             IN  { t, Strip(Slice(t, 0, p)), Strip(Slice(t, p + 2, q)) }

\* The ways of reading the lowercased term lt as "<main> (<alt>)": the
\* 0-based offset p of a space that is followed by "(", with a non-empty
\* <main> before it, a non-empty <alt> after the "(", and the closing ")"
\* as the last character of the term
FormSplits(lt) ==
    { p \in 1 .. Len(lt) - 4 :
        /\ lt[p + 1] = " "
        /\ lt[p + 2] = "("
        /\ lt[Len(lt)] = ")" }

\* C6: _generate_aliases(term) holds lowercase(term), holds lowercase
\* strings only, and is exactly {lowercase(term), <main>, <alt>}, both
\* trimmed, for a term of the form "<main> (<alt>)" and exactly
\* {lowercase(term)} for any other term.
C6_AliasesExact ==
    alias_pc = "returned" =>
        LET lt == Lower(alias_term)
        IN  /\ lt \in aliases
            /\ \A a \in aliases : Lower(a) = a
            /\ IF FormSplits(lt) = {}
               THEN aliases = { lt }
               ELSE \E p \in FormSplits(lt) :
                       aliases = { lt,
                                   Strip(Slice(lt, 0, p)),
                                   Strip(Slice(lt, p + 2, Len(lt) - 1)) }

\* The part of C6 that does not depend on which terms have the form
C6_LowercaseAndFull ==
    alias_pc = "returned" =>
        /\ Lower(alias_term) \in aliases
        /\ \A a \in aliases : Lower(a) = a
        /\ Cardinality(aliases) <= 3
        /\ alias_term = PertussisTerm =>
              aliases = { Lower(PertussisTerm),
                          <<"p","e","r","t","u","s","s","i","s">>,
                          <<"w","h","o","o","p","i","n","g"," ","c","o","u","g","h">> }

(***************************************************************************)
(* Properties of the index build                                           *)
(***************************************************************************)

\* The definition records of a file's data, in file order: one for each
\* record with a non-empty term
RECURSIVE EntriesOf(_, _)
EntriesOf(name, data) ==
    IF data = <<>> THEN <<>>
    ELSE (IF EntryTerm(Head(data)) = <<>> THEN <<>>
          ELSE << [main_term |-> Head(data).term,
                   plain_alternative |-> Head(data).plain_alternative,
                   source |-> name] >>)
         \o EntriesOf(name, Tail(data))

\* ... of the JSON files of a listing, in load order
RECURSIVE LoadOrderEntries(_)
LoadOrderEntries(files) ==
    IF files = <<>> THEN <<>>
    ELSE (IF Head(files).json THEN EntriesOf(Head(files).name, Head(files).data) ELSE <<>>)
         \o LoadOrderEntries(Tail(files))

\* C7: after _load_and_index, phrase_index maps every alias to the
\* entries, in load order, of the records with a non-empty term whose
\* alias set holds it; every key is lowercase; the keys are
\* all_known_phrases.
C7_IndexIsLoadOrder ==
    build_pc = "ready" =>
        LET entries == LoadOrderEntries(listing)
        IN  /\ DOMAIN phrase_index = all_known_phrases
            /\ all_known_phrases =
                  UNION { _generate_aliases(entries[k].main_term) : k \in DOMAIN entries }
            /\ \A a \in DOMAIN phrase_index :
                  LET HasAlias(e) == a \in _generate_aliases(e.main_term)
                  IN  /\ Lower(a) = a
                      /\ phrase_index[a] = SelectSeq(entries, HasAlias)

\* An alias that two different terms share, in a directory that also
\* holds a record without a usable term
C7_Witness ==
    /\ build_pc = "ready"
    /\ \E a \in DOMAIN phrase_index :
          /\ Len(phrase_index[a]) >= 2
          /\ phrase_index[a][1].main_term # phrase_index[a][2].main_term
    /\ \E f \in directory : \E k \in DOMAIN f.data : EntryTerm(f.data[k]) = <<>>

\* C8: a second build from the same directory gives the phrase_index of
\* the first, entry order included, whatever order os.listdir returns.
C8_RebuildIdentical ==
    (build_pc = "ready" /\ prev_index.built) => phrase_index = prev_index.index

(***************************************************************************)
(* Properties of the matchers as users of the index                        *)
(***************************************************************************)

\* For calls made one after another: no step of a matcher call,
\* span-reporting or legacy, changes phrase_index or all_known_phrases
\* (or the order the set iterates in).
C9_MatchersOnlyRead ==
    [][ (pc # "idle" \/ pc' # "idle")
            => UNCHANGED << phrase_index, all_known_phrases, iter_order >> ]_vars

\* A span-reporting call that looked definitions up for several terms
C9_Witness ==
    /\ pc = "enhanced_done"
    /\ Len(result.found_terms) >= 2

\* C10: a matcher call does not return normally on a text that holds a
\* phrase of all_known_phrases for which phrase_index has no entries.
C10_MalformedIndexFailsFast ==
    pc \in { "enhanced_done", "legacy_done" } =>
        \A a \in all_known_phrases :
            Occurrences(a, Lower(text)) # {} => IndexGet(phrase_index, a) # <<>>

(***************************************************************************)
(* C19: the legacy matcher against the span-reporting one                  *)
(***************************************************************************)

\* The phrases of order for which the span-reporting sweep accepts at
\* least one occurrence in original_text, the sweep starting from st
RECURSIVE AcceptedPhrases(_, _, _)
AcceptedPhrases(st, order, original_text) ==
    IF order = <<>> THEN {}
    ELSE LET st1 == ProcessPhrase(st, Head(order), original_text)
         IN  (IF Len(st1.matched_ranges) > Len(st.matched_ranges)
              THEN { Head(order) } ELSE {})
                 \cup AcceptedPhrases(st1, Tail(order), original_text)

\* The phrases the span-reporting matcher would accept for the text of the
\* running call, with the index and the sort order the legacy call saw
EnhancedAccepts ==
    AcceptedPhrases([found_terms |-> <<>>, matched_ranges |-> <<>>,
                     phrase_index |-> phrase_index],
                    SortedByLen(iter_order), text)

\* C19: a phrase is a key of the legacy matcher's result exactly when the
\* span-reporting matcher accepts a span for it in the same text, and the
\* value under the key is PhraseIndex[phrase].
C19_LegacySameRule ==
    pc = "legacy_done" =>
        /\ { result[k].phrase : k \in DOMAIN result } = EnhancedAccepts
        /\ \A k \in DOMAIN result :
              result[k].definitions = phrase_index[result[k].phrase]

\* The same, for non-empty phrases and texts that str.lower() keeps at
\* their length only
C19_LegacySameRulePlain ==
    (pc = "legacy_done" /\ Len(Lower(text)) = Len(text)) =>
        { result[k].phrase : k \in DOMAIN result } \ { <<>> }
            = EnhancedAccepts \ { <<>> }

\* The half of C19 about the values
C19_LegacyValues ==
    pc = "legacy_done" =>
        \A k \in DOMAIN result :
            result[k].definitions = phrase_index[result[k].phrase]

(***************************************************************************)
(* PLSEvaluationTool: the metric rating engine                             *)
(*                                                                         *)
(* A metric value or a threshold is a number with one decimal, kept as the *)
(* integer count of its tenths: 35.5 is 355.                               *)
(***************************************************************************)

\* Number of scored features the analyzer reports and the table holds
MaxScored == 2

Tenths(n) == 10 * n

\* self.recommended_features (lines 23-62)
recommended_features ==
    << "words_per_sentence", "passive_voice", "active_voice",
       "sentences_per_paragraph", "pronouns", "nominalization", "verbs",
       "nouns", "numbers",
       "flesch_reading_ease", "flesch_kincaid_grade",
       "automated_readability_index", "coleman_liau_index",
       "gunning_fog_index", "lix", "rix", "smog_index",
       "dale_chall_readability",
       "complex_words_dc", "complex_words", "long_words",
       "syllables_per_word", "polysyllables",
       "tobeverb", "auxverb", "subordinating_conjunctions",
       "words", "sentences", "paragraphs" >>

\* f"{x:.1f}" of a number with one decimal: sign, integer digits, decimal
Fmt1(x) ==
    LET a == IF x < 0 THEN 0 - x ELSE x
    IN  [negative |-> x < 0, integer |-> a \div 10, decimal |-> a % 10]

\* A comparison that leaves the threshold itself out
Above(value, bound) == value > bound

\* value >= thresholds[...] (lines 106-112)
AtLeast(value, bound) == value >= bound

\* value <= thresholds[...] (lines 118-124)
AtMost(value, bound) == value <= bound

\* Ratings that also hold the third bucket of each direction
DeviatingRatingsWide(direction) ==
    IF direction = "higher_better" THEN { "P25", "P10", "BELOW_P10" }
    ELSE { "P75", "P90", "BEYOND_P90" }

\* The ratings feedback is written for (lines 131-138)
DeviatingRatings(direction) ==
    IF direction = "higher_better" THEN { "P10", "BELOW_P10" }
    ELSE { "P90", "BEYOND_P90" }

\* feedback = None
NoFeedback == [given |-> FALSE]

\* _evaluate_metric (lines 101-145); thresholds is the feature's entry of
\* the table.  The feedback f-string is kept as its parts.
_evaluate_metric(feature, value, thresholds, direction) ==
    LET rating ==
            IF direction = "higher_better"
            THEN IF AtLeast(value, thresholds.excellent) THEN "P75"
                 ELSE IF AtLeast(value, thresholds.good) THEN "P50"
                 ELSE IF AtLeast(value, thresholds.acceptable) THEN "P25"
                 ELSE IF AtLeast(value, thresholds.poor) THEN "P10"
                 ELSE "BELOW_P10"
            ELSE IF AtMost(value, thresholds.excellent) THEN "P25"
                 ELSE IF AtMost(value, thresholds.good) THEN "P50"
                 ELSE IF AtMost(value, thresholds.acceptable) THEN "P75"
                 ELSE IF AtMost(value, thresholds.poor) THEN "P90"
                 ELSE "BEYOND_P90"
        feedback ==
            IF rating \in DeviatingRatings(direction)
            THEN [given |-> TRUE,
                  advice |-> IF direction = "higher_better"
                             THEN "Consider increasing" ELSE "Consider reducing",
                  from |-> Fmt1(value),
                  bound |-> IF direction = "higher_better" THEN ">" ELSE "<",
                  target |-> Fmt1(thresholds.good)]
            ELSE NoFeedback
    IN  [value |-> value, rating |-> rating, direction |-> direction,
         feedback |-> feedback]

\* _evaluate_word_count (lines 147-157), limit = 850
_evaluate_word_count(word_count) ==
    LET status == IF word_count <= Tenths(850) THEN "within_limit" ELSE "over_limit"
    IN  [word_count |-> word_count, limit |-> Tenths(850), status |-> status,
         message |-> [word_count |-> word_count,
                      symbol |-> IF status = "within_limit" THEN "check" ELSE "cross",
                      words |-> IF status = "within_limit"
                                THEN "WITHIN LIMIT" ELSE "OVER LIMIT"]]

\* rating_counts = {"P25": 0, ...} (line 289)
RatingNames == { "P25", "P50", "P75", "P90", "P10", "BEYOND_P90", "BELOW_P10" }

\* No feature is set apart as basic information
IsBasicNever(feature) == FALSE

\* if feature in ["words", "sentences"] (line 292)
IsBasic(feature) == feature \in { "words", "sentences" }

\* The loop over self.recommended_features (lines 291-309) from position
\* k on.  ev carries linguistic_evaluation, rating_counts, the cached
\* table (self._thresholds) and whether an exception left the loop.
RECURSIVE EvaluateFrom(_, _, _, _)
EvaluateFrom(k, ev, features, file) ==
    IF k > Len(recommended_features) \/ ev.raised THEN ev
    ELSE LET feature == recommended_features[k]
         IN  IF IsBasic(feature) \/ feature \notin DOMAIN features
             THEN EvaluateFrom(k + 1, ev, features, file)
             ELSE \* self.thresholds: the table is read from disk on first use
                  IF ~ ev.cache.loaded /\ ~ file.exists
                  THEN [ev EXCEPT !.raised = TRUE]
                  ELSE LET cache == IF ev.cache.loaded THEN ev.cache
                                    ELSE [loaded |-> TRUE, table |-> file.table]
                           ev1 == [ev EXCEPT !.cache = cache]
                       IN  IF feature \notin DOMAIN cache.table
                           THEN EvaluateFrom(k + 1, ev1, features, file)
                           ELSE LET threshold_data == cache.table[feature]
                                    evaluation ==
                                        _evaluate_metric(feature, features[feature],
                                                         threshold_data,
                                                         threshold_data.direction)
                                IN  EvaluateFrom(k + 1,
                                        [ev1 EXCEPT
                                           !.linguistic_evaluation =
                                               @ @@ (feature :> evaluation),
                                           !.order = Append(@, feature),
                                           !.rating_counts[evaluation.rating] = @ + 1],
                                        features, file)

RECURSIVE SumOver(_, _)
SumOver(f, S) ==
    IF S = {} THEN 0
    ELSE LET x == CHOOSE y \in S : TRUE IN f[x] + SumOver(f, S \ { x })

\* count / total_evaluated * 100, kept as the fraction it is
Percentage(count, total) ==
    IF total > 0 THEN [num |-> 100 * count, den |-> total] ELSE [num |-> 0, den |-> 1]

\* Lines 312-351
Summary(rating_counts) ==
    LET total_evaluated == SumOver(rating_counts, RatingNames)
        best_quartile == rating_counts["P25"] + rating_counts["P75"]
        median_range == rating_counts["P50"]
        overall ==
            IF total_evaluated > 0
            THEN IF 100 * best_quartile >= 60 * total_evaluated
                 THEN "HIGHLY CONFORMS TO TYPICAL PLS PATTERNS"
                 ELSE IF 10 * (best_quartile + median_range) >= 7 * total_evaluated
                 THEN "GOOD CONFORMITY WITH PLS PATTERNS"
                 ELSE IF 10 * (best_quartile + median_range) >= 5 * total_evaluated
                 THEN "MODERATE CONFORMITY WITH PLS PATTERNS"
                 ELSE "DEVIATES FROM TYPICAL PLS PATTERNS"
            ELSE "NO EVALUATION POSSIBLE"
    IN  [counts |-> rating_counts,
         total_evaluated |-> total_evaluated,
         percentages |-> [r \in RatingNames |->
                             Percentage(rating_counts[r], total_evaluated)],
         best_quartile_rate |-> Percentage(best_quartile, total_evaluated),
         overall_assessment |-> overall]

\* The order in which _format_text_output lists the ratings (line 188)
RatingOrder == << "P25", "P75", "P50", "P90", "P10", "BEYOND_P90", "BELOW_P10" >>

RECURSIVE SelectSeq2(_, _, _)
SelectSeq2(seq, ev, rating) ==
    IF seq = <<>> THEN <<>>
    ELSE (IF ev[Head(seq)].rating = rating
          THEN << [feature |-> Head(seq),
                   arrow |-> IF ev[Head(seq)].direction = "higher_better"
                             THEN "up" ELSE "down",
                   value |-> Fmt1(ev[Head(seq)].value),
                   rating |-> rating] >>
          ELSE <<>>) \o SelectSeq2(Tail(seq), ev, rating)

RECURSIVE MetricLines(_, _, _)
MetricLines(k, order, ev) ==
    IF k > Len(RatingOrder) THEN <<>>
    ELSE SelectSeq2(order, ev, RatingOrder[k]) \o MetricLines(k + 1, order, ev)

RECURSIVE Recommendations(_, _)
Recommendations(order, ev) ==
    IF order = <<>> THEN <<>>
    ELSE (IF ev[Head(order)].feedback.given
          THEN << [feature |-> Head(order), feedback |-> ev[Head(order)].feedback] >>
          ELSE <<>>) \o Recommendations(Tail(order), ev)

\* _format_text_output (lines 159-235): the text, kept as what its lines
\* say; order is the insertion order of the rated features
_format_text_output(evaluation_data, order) ==
    LET summary == evaluation_data.summary
        ev == evaluation_data.linguistic_evaluation
        deviating == << "P90", "P10", "BEYOND_P90", "BELOW_P10" >>
    IN  [word_count |-> evaluation_data.word_count_status.message,
         sentences |-> ev["sentences"].value,
         metrics |-> MetricLines(1, order, ev),
         best_quartile |-> [features |-> summary.counts["P25"] + summary.counts["P75"],
                            P25_percentage |-> summary.percentages["P25"],
                            P75_percentage |-> summary.percentages["P75"]],
         median |-> [features |-> summary.counts["P50"],
                     percentage |-> summary.percentages["P50"]],
         deviations |-> SelectSeq(deviating, LAMBDA r : summary.counts[r] > 0),
         overall |-> summary.overall_assessment,
         best_quartile_rate |-> summary.best_quartile_rate,
         recommendations |-> Recommendations(order, ev)]

\* dict.get(key, default)
Get(d, key, default) == IF key \in DOMAIN d THEN d[key] ELSE default

\* ToolResponse(tool_name=..., status="error", error=...): result keeps
\* its default None, which is the field being absent here
ErrorResponse(tool_name, error) ==
    [tool_name |-> tool_name, status |-> "error", error |-> error]

\* ToolResponse(tool_name=..., status="success", result=...)
SuccessResponse(tool_name, value) ==
    [tool_name |-> tool_name, status |-> "success", result |-> value]

\* PLSEvaluationTool.execute (lines 237-380) on parameters params, with an
\* the answer of the linguistic tool, file the table on disk and cache
\* self._thresholds; what it returns and what self._thresholds becomes
PLSEvaluationTool_execute(params, an, file, cache) ==
    IF "text" \notin DOMAIN params \/ params.text = <<>>
    THEN [response |-> ErrorResponse("pls_evaluation",
                                     << "'text' parameter is required" >>),
          cache |-> cache]
    ELSE IF an.status # "success"
    THEN [response |-> ErrorResponse("pls_evaluation",
                                     << "Linguistic analysis failed: ", an.error >>),
          cache |-> cache]
    ELSE LET features == an.result
             word_count == Get(features, "words", 0)
             sentences_count == Get(features, "sentences", 0)
             basics ==
                 ("words" :> [value |-> word_count,
                              rating |-> IF word_count <= Tenths(850)
                                         THEN "within_limit" ELSE "over_limit",
                              direction |-> None,
                              feedback |-> NoFeedback])
                 @@ ("sentences" :> [value |-> sentences_count,
                                     rating |-> "info",
                                     direction |-> None,
                                     feedback |-> NoFeedback])
             ev == EvaluateFrom(1,
                       [linguistic_evaluation |-> basics,
                        order |-> <<>>,
                        rating_counts |-> [r \in RatingNames |-> 0],
                        cache |-> cache,
                        raised |-> FALSE],
                       features, file)
             evaluation_data ==
                 [linguistic_evaluation |-> ev.linguistic_evaluation,
                  word_count_status |-> _evaluate_word_count(word_count),
                  summary |-> Summary(ev.rating_counts)]
         IN  IF ev.raised
             THEN [response |-> ErrorResponse("pls_evaluation",
                                   << "PLS evaluation failed: ", "No such file or directory" >>),
                   cache |-> ev.cache]
             ELSE [response |->
                       SuccessResponse("pls_evaluation",
                           IF Get(params, "format", "json") = "text"
                           THEN [text |-> _format_text_output(evaluation_data, ev.order)]
                           ELSE evaluation_data),
                   cache |-> ev.cache]

\* The features the analyzer may report and the table may hold: the first
\* MaxScored of recommended_features
FeaturePool == { recommended_features[k] : k \in 1 .. MaxScored }

\* 5, 15, 35.5, 50 and 80
MetricValues == { 50, 150, 355, 500, 800 }

HigherEntry == [excellent |-> Tenths(70), good |-> Tenths(50), acceptable |-> Tenths(30),
                poor |-> Tenths(10), direction |-> "higher_better"]

LowerEntry == [excellent |-> 50, good |-> 150, acceptable |-> 355,
               poor |-> 500, direction |-> "lower_better"]

\* What the analyzer may report: a value for any of the FeaturePool, the
\* word and sentence counts or neither, and a feature nobody asks for
AnalyzerResults ==
    { scored @@ basics @@ ("characters" :> Tenths(100)) :
        scored \in UNION { [D -> MetricValues] : D \in SUBSET FeaturePool },
        basics \in { <<>>,
                     ("words" :> Tenths(850)) @@ ("sentences" :> Tenths(5)),
                     ("words" :> Tenths(851)) @@ ("sentences" :> Tenths(40)) } }

Analyses ==
    { [status |-> "error", error |-> "Empty or invalid text provided"] }
        \cup { [status |-> "success", result |-> r] : r \in AnalyzerResults }

\* The threshold table on disk: absent, or an entry for any of the
\* FeaturePool and for "words"
ThresholdFiles ==
    { [exists |-> FALSE] }
        \cup { [exists |-> TRUE, table |-> t] :
                 t \in UNION { [D -> { HigherEntry, LowerEntry }] :
                                 D \in SUBSET (FeaturePool \cup { "words" }) } }

\* The parameters of a call: no text, an empty text, a text; no format,
\* "json", "text"
PLSParameters ==
    { txt @@ fmt :
        txt \in { <<>>, [text |-> <<>>], [text |-> <<"a">>] },
        fmt \in { <<>>, [format |-> "json"], [format |-> "text"] } }

\* execute is entered.  The linguistic tool is consulted only for a
\* non-empty text and the table only after a successful analysis; what
\* is not consulted stays as it was.
CallPLS ==
    /\ pls_pc = "idle"
    /\ pls_pc' = "called"
    /\ \E params \in PLSParameters :
         /\ parameters' = params
         /\ IF "text" \in DOMAIN params /\ params.text # <<>>
            THEN \E an \in Analyses :
                   /\ analysis' = an
                   /\ IF an.status = "success"
                      THEN thresholds_file' \in ThresholdFiles
                      ELSE UNCHANGED thresholds_file
            ELSE UNCHANGED << analysis, thresholds_file >>
    /\ UNCHANGED << _thresholds, response, build_vars, call_vars, alias_vars,
                    single_vars, app_vars >>

\* execute returns
ReturnPLS ==
    /\ pls_pc = "called"
    /\ pls_pc' = "returned"
    /\ LET out == PLSEvaluationTool_execute(parameters, analysis,
                                            thresholds_file, _thresholds)
       IN  /\ response' = out.response
           /\ _thresholds' = out.cache
    /\ UNCHANGED << parameters, analysis, thresholds_file,
                    build_vars, call_vars, alias_vars, single_vars, app_vars >>

InitRating == InitWith({ {} })

SpecRating == InitRating /\ [][CallPLS \/ ReturnPLS]_vars

(***************************************************************************)
(* C14-C18: properties of the metric rating engine                         *)
(***************************************************************************)

\* An evaluation has returned successfully in the structured format
Evaluated ==
    /\ pls_pc = "returned"
    /\ response.status = "success"
    /\ "linguistic_evaluation" \in DOMAIN response.result

\* The features of a returned evaluation that carry a percentile rating
RatedFeatures == DOMAIN response.result.linguistic_evaluation \ { "words", "sentences" }

EvaluationOf(f) == response.result.linguistic_evaluation[f]

\* The rating the specification gives a value under an entry of the table
SpecifiedRating(value, entry) ==
    IF entry.direction = "higher_better"
    THEN CASE value >= entry.excellent -> "P75"
           [] value < entry.excellent /\ value >= entry.good -> "P50"
           [] value < entry.excellent /\ value < entry.good
                /\ value >= entry.acceptable -> "P25"
           [] value < entry.excellent /\ value < entry.good
                /\ value < entry.acceptable /\ value >= entry.poor -> "P10"
           [] OTHER -> "BELOW_P10"
    ELSE CASE value <= entry.excellent -> "P25"
           [] value > entry.excellent /\ value <= entry.good -> "P50"
           [] value > entry.excellent /\ value > entry.good
                /\ value <= entry.acceptable -> "P75"
           [] value > entry.excellent /\ value > entry.good
                /\ value > entry.acceptable /\ value <= entry.poor -> "P90"
           [] OTHER -> "BEYOND_P90"

\* The ratings of 80, 50, 35, 15 and 5 under {excellent: 70, good: 50,
\* acceptable: 30, poor: 10}, higher_better
ExampleRatings ==
    [ v \in { 80, 50, 35, 15, 5 } |->
        _evaluate_metric("flesch_reading_ease", Tenths(v), HigherEntry,
                         "higher_better").rating ]

\* C14: _evaluate_metric rates a value by the inclusive threshold chain of
\* its direction (P75/P50/P25/P10/BELOW_P10 for higher_better,
\* P25/P50/P75/P90/BEYOND_P90 for lower_better), and 80, 50, 35, 15, 5
\* rate P75, P50, P25, P10, BELOW_P10 under {70, 50, 30, 10}.
C14_RatingByThresholds ==
    /\ ExampleRatings = (80 :> "P75" @@ 50 :> "P50" @@ 35 :> "P25"
                           @@ 15 :> "P10" @@ 5 :> "BELOW_P10")
    /\ Evaluated =>
         \A f \in RatedFeatures :
            /\ EvaluationOf(f).value = analysis.result[f]
            /\ EvaluationOf(f).direction = _thresholds.table[f].direction
            /\ EvaluationOf(f).rating =
                  SpecifiedRating(analysis.result[f], _thresholds.table[f])

\* A higher_better value that equals its good threshold is rated P50, and
\* a lower_better value that equals its poor threshold is rated P90
C14_Witness ==
    /\ Evaluated
    /\ \E f \in RatedFeatures :
         /\ _thresholds.table[f].direction = "higher_better"
         /\ analysis.result[f] = _thresholds.table[f].good
         /\ EvaluationOf(f).rating = "P50"
    /\ \E f \in RatedFeatures :
         /\ _thresholds.table[f].direction = "lower_better"
         /\ analysis.result[f] = _thresholds.table[f].poor
         /\ EvaluationOf(f).rating = "P90"

\* C15: feedback is given exactly for the ratings P10 and BELOW_P10 of a
\* higher_better feature and P90 and BEYOND_P90 of a lower_better one,
\* and it names the feature's good threshold as the target.
C15_FeedbackOnDeviation ==
    Evaluated =>
        \A f \in RatedFeatures :
            LET e == EvaluationOf(f)
                entry == _thresholds.table[f]
            IN  /\ e.feedback.given <=>
                      \/ entry.direction = "higher_better"
                           /\ e.rating \in { "P10", "BELOW_P10" }
                      \/ entry.direction = "lower_better"
                           /\ e.rating \in { "P90", "BEYOND_P90" }
                /\ e.feedback.given =>
                      /\ e.feedback.target = Fmt1(entry.good)
                      /\ e.feedback.from = Fmt1(analysis.result[f])
                /\ ~ e.feedback.given => e.feedback = NoFeedback

\* One feature with feedback and one, of the third bucket, without
C15_Witness ==
    /\ Evaluated
    /\ \E f \in RatedFeatures :
         EvaluationOf(f).feedback.given /\ EvaluationOf(f).rating = "P10"
    /\ \E f \in RatedFeatures :
         ~ EvaluationOf(f).feedback.given /\ EvaluationOf(f).rating = "P25"
                                          /\ EvaluationOf(f).direction = "higher_better"

\* The best-quartile bucket of a direction
BestBucket(direction) == IF direction = "higher_better" THEN "P75" ELSE "P25"

\* The rated features that landed in the best-quartile bucket of their
\* own direction
InBestQuartile ==
    { f \in RatedFeatures : EvaluationOf(f).rating = BestBucket(EvaluationOf(f).direction) }

\* C16: best_quartile_rate is 100 times the number of rated features in
\* the best-quartile bucket of their own direction (P75 for higher_better,
\* P25 for lower_better), divided by the number of rated features.
C16_BestQuartileRate ==
    (Evaluated /\ RatedFeatures # {}) =>
        LET rate == response.result.summary.best_quartile_rate
        IN  rate.num * Cardinality(RatedFeatures)
               = 100 * Cardinality(InBestQuartile) * rate.den

FourTiers ==
    { "HIGHLY CONFORMS TO TYPICAL PLS PATTERNS",
      "GOOD CONFORMITY WITH PLS PATTERNS",
      "MODERATE CONFORMITY WITH PLS PATTERNS",
      "DEVIATES FROM TYPICAL PLS PATTERNS" }

\* The tier the specification gives best features in the best quartile
\* and median features rated P50, out of total
SpecifiedTier(best, median, total) ==
    IF 100 * best >= 60 * total THEN "HIGHLY CONFORMS TO TYPICAL PLS PATTERNS"
    ELSE IF 100 * (best + median) >= 70 * total THEN "GOOD CONFORMITY WITH PLS PATTERNS"
    ELSE IF 100 * (best + median) >= 50 * total THEN "MODERATE CONFORMITY WITH PLS PATTERNS"
    ELSE "DEVIATES FROM TYPICAL PLS PATTERNS"

\* C17: the overall_assessment of a successful evaluation is one of the
\* four tiers: HIGHLY CONFORMS when the best-quartile share is at least
\* 60%, else GOOD when best-quartile plus P50 is at least 70%, else
\* MODERATE when that is at least 50%, else DEVIATES.
C17_OverallTier ==
    Evaluated =>
        /\ response.result.summary.overall_assessment \in FourTiers
        /\ RatedFeatures # {} =>
              response.result.summary.overall_assessment =
                  SpecifiedTier(Cardinality(InBestQuartile),
                                Cardinality({ f \in RatedFeatures :
                                                EvaluationOf(f).rating = "P50" }),
                                Cardinality(RatedFeatures))

\* The recommended features, words and sentences aside, that the analyzer
\* reported and the table on disk holds
PresentInBoth ==
    { f \in Range(recommended_features) \ { "words", "sentences" } :
        f \in DOMAIN analysis.result /\ f \in DOMAIN thresholds_file.table }

\* C18: a recommended feature missing from the analyzer's output or from
\* the table is skipped and the evaluation still succeeds: the rated
\* features are those present in both, words and sentences aside, and
\* total_evaluated, the sum of the rating counts, is their number.
C18_MissingFeaturesSkipped ==
    (/\ pls_pc = "returned"
     /\ "text" \in DOMAIN parameters
     /\ parameters.text # <<>>
     /\ analysis.status = "success"
     /\ thresholds_file.exists) =>
        /\ response.status = "success"
        /\ Evaluated =>
             LET summary == response.result.summary
             IN  /\ RatedFeatures = PresentInBoth
                 /\ summary.total_evaluated = Cardinality(PresentInBoth)
                 /\ summary.total_evaluated = SumOver(summary.counts, RatingNames)
                 /\ \A r \in RatingNames :
                       summary.counts[r] =
                           Cardinality({ f \in PresentInBoth : EvaluationOf(f).rating = r })

\* One feature is rated, one is missing from the analyzer's output though
\* the table holds it, and the table holds an entry for the reported words
C18_Witness ==
    /\ Evaluated
    /\ thresholds_file.exists
    /\ Cardinality(RatedFeatures) = 1
    /\ \E f \in FeaturePool :
         f \notin DOMAIN analysis.result /\ f \in DOMAIN thresholds_file.table
    /\ "words" \in DOMAIN analysis.result
    /\ "words" \in DOMAIN thresholds_file.table

(***************************************************************************)
(* GlossaryServiceSingleton and GlossaryTool                               *)
(***************************************************************************)

\* The directories the singleton builds from: one record; two records,
\* the second with the first as its alias; two records of which the second
\* has no plain_alternative, so that the build raises after the first is
\* indexed
OneRecordDirectory ==
    { [name |-> "s1", json |-> TRUE, data |-> << Rec(<<"a">>, "p1") >>] }

TwoRecordDirectory ==
    { [name |-> "s1", json |-> TRUE,
       data |-> << Rec(<<"a">>, "p1"), Rec(<<"A", " ", "(", "a", ")">>, "p2") >>] }

RaisingDirectory ==
    { [name |-> "s1", json |-> TRUE,
       data |-> << Rec(<<"a">>, "p1"), [term |-> <<"b">>] >>] }

SingletonDirectories == { OneRecordDirectory, TwoRecordDirectory, RaisingDirectory }

\* A GlossaryService object as __init__ has it before _load_and_index
\* runs (lines 15-16), with what os.listdir gives it to go through
NewService(files) ==
    [state |-> "loading", listing |-> files, file_idx |-> 1, rec_pos |-> 1,
     phrase_index |-> <<>>, all_known_phrases |-> {}, iter_order |-> <<>>]

\* What one step of __init__ can make of the object o: SkipFile,
\* LoadRecord, NextFile or FinishBuild, on the fields of o
ServiceSteps(o) ==
    IF o.file_idx > Len(o.listing)
    THEN { [o EXCEPT !.state = "ready", !.iter_order = ord] :
             ord \in { x \in Perms(o.all_known_phrases) :
                         IsLengthSorted(x, o.all_known_phrases) } }
    ELSE LET file == o.listing[o.file_idx]
         IN  IF ~ file.json \/ o.rec_pos > Len(file.data)
             THEN { [o EXCEPT !.file_idx = @ + 1, !.rec_pos = 1] }
             ELSE LET entry == file.data[o.rec_pos]
                      original_term == EntryTerm(entry)
                  IN  IF original_term = <<>>
                      THEN { [o EXCEPT !.rec_pos = @ + 1] }
                      ELSE IF "plain_alternative" \notin DOMAIN entry
                      THEN { [o EXCEPT !.state = "failed"] }
                      ELSE LET definition_record ==
                                   [main_term |-> original_term,
                                    plain_alternative |-> entry.plain_alternative,
                                    source |-> file.name]
                               als == _generate_aliases(original_term)
                           IN  { [o EXCEPT
                                    !.phrase_index = IndexRecord(@, als, definition_record),
                                    !.all_known_phrases = @ \cup als,
                                    !.rec_pos = @ + 1] }

\* self._service = GlossaryService(glossaries_dir) binds the name once the
\* constructor has returned
PublishableEarly(o) == o.state \in { "loading", "ready" }

Publishable(o) == o.state = "ready"

\* The except branch sets _initialized as the try branch does (line 30)
RetryAfterFailure == FALSE

InitializedAfterFailure == TRUE

\* The caller t, with some of its fields changed
SetCaller(t, c) == [callers EXCEPT ![t] = c]

\* glossary_singleton.get_service() is called
CallGetService(t) ==
    /\ callers[t].pc = "idle"
    /\ calls < MaxCalls
    /\ calls' = calls + 1
    /\ callers' = SetCaller(t, [callers[t] EXCEPT !.pc = "check", !.op = "get_service"])
    /\ UNCHANGED << _initialized, _service, services, returns, resets >>
    /\ UNCHANGED rest_vars

\* GlossaryTool() is constructed: __init__ calls get_service
NewGlossaryTool(t) ==
    /\ callers[t].pc = "idle"
    /\ callers[t].tool = -1
    /\ calls < MaxCalls
    /\ calls' = calls + 1
    /\ callers' = SetCaller(t, [callers[t] EXCEPT !.pc = "check", !.op = "tool_init"])
    /\ UNCHANGED << _initialized, _service, services, returns, resets >>
    /\ UNCHANGED rest_vars

\* if not self._initialized (line 20)
GetServiceCheck(t) ==
    /\ callers[t].pc = "check"
    /\ callers' = SetCaller(t, [callers[t] EXCEPT
                                  !.pc = IF _initialized THEN "return" ELSE "construct"])
    /\ UNCHANGED << _initialized, _service, services, returns, resets >>
    /\ UNCHANGED << calls, rest_vars >>

\* GlossaryService(glossaries_dir) is entered (line 24): a new object
GetServiceConstruct(t) ==
    /\ callers[t].pc = "construct"
    /\ \E files \in Perms(directory) :
          services' = Append(services, NewService(files))
    /\ callers' = SetCaller(t, [callers[t] EXCEPT !.pc = "building",
                                                    !.svc = Len(services) + 1])
    /\ UNCHANGED << _initialized, _service, returns, resets >>
    /\ UNCHANGED << calls, rest_vars >>

\* One step of the constructor t is in
GetServiceBuild(t) ==
    /\ callers[t].pc = "building"
    /\ services[callers[t].svc].state = "loading"
    /\ \E o \in ServiceSteps(services[callers[t].svc]) :
          services' = [services EXCEPT ![callers[t].svc] = o]
    /\ UNCHANGED << _initialized, _service, callers, returns, resets >>
    /\ UNCHANGED << calls, rest_vars >>

\* The constructor has returned: self._service = ... (line 24)
GetServiceAssign(t) ==
    /\ callers[t].pc = "building"
    /\ Publishable(services[callers[t].svc])
    /\ _service' = callers[t].svc
    /\ callers' = SetCaller(t, [callers[t] EXCEPT !.pc = "built"])
    /\ UNCHANGED << _initialized, services, returns, resets >>
    /\ UNCHANGED << calls, rest_vars >>

\* The constructor raised: except Exception, self._service = None
\* (lines 27-29)
GetServiceExcept(t) ==
    /\ callers[t].pc = "building"
    /\ services[callers[t].svc].state = "failed"
    /\ _service' = 0
    /\ callers' = SetCaller(t, [callers[t] EXCEPT !.pc = "caught"])
    /\ UNCHANGED << _initialized, services, returns, resets >>
    /\ UNCHANGED << calls, rest_vars >>

\* self._initialized = True (line 25, and line 30 in the except branch)
GetServiceInitialized(t) ==
    /\ callers[t].pc \in { "built", "caught" }
    /\ _initialized' = IF callers[t].pc = "caught" THEN InitializedAfterFailure ELSE TRUE
    /\ callers' = SetCaller(t, [callers[t] EXCEPT !.pc = "return"])
    /\ UNCHANGED << _service, services, returns, resets >>
    /\ UNCHANGED << calls, rest_vars >>

\* return self._service (line 32); in GlossaryTool.__init__ the value
\* becomes self.glossary_service
GetServiceReturn(t) ==
    /\ callers[t].pc = "return"
    /\ returns' = returns \cup { _service }
    /\ callers' = SetCaller(t, [callers[t] EXCEPT
                                  !.pc = "idle", !.op = "none", !.svc = 0,
                                  !.tool = IF callers[t].op = "tool_init"
                                           THEN _service ELSE @])
    /\ UNCHANGED << _initialized, _service, services, resets >>
    /\ UNCHANGED << calls, rest_vars >>

\* reset(): self._service = None (line 36)
CallReset(t) ==
    /\ callers[t].pc = "idle"
    /\ resets < MaxResets
    /\ resets' = resets + 1
    /\ _service' = 0
    /\ callers' = SetCaller(t, [callers[t] EXCEPT !.pc = "reset"])
    /\ UNCHANGED << _initialized, services, returns >>
    /\ UNCHANGED << calls, rest_vars >>

\* reset(): self._initialized = False (line 37)
ResetInitialized(t) ==
    /\ callers[t].pc = "reset"
    /\ _initialized' = FALSE
    /\ callers' = SetCaller(t, [callers[t] EXCEPT !.pc = "idle"])
    /\ UNCHANGED << _service, services, returns, resets >>
    /\ UNCHANGED << calls, rest_vars >>

\* A JSON value of the parameters dict: a string, or a value of another
\* type, which has no lower()
Str(chars) == [type |-> "str", value |-> chars]

NoneValue == [type |-> "NoneType"]

IntValue == [type |-> "int"]

\* str(e) of the AttributeError that text.lower() raises (line 105 of
\* the service) for a text that is no string
AttributeErrorText(v) == << "'", v.type, "' object has no attribute 'lower'" >>

\* for phrase in sorted_phrases (lines 114-158), all iterations
RECURSIVE ProcessPhrases(_, _, _)
ProcessPhrases(st, phrases, original_text) ==
    IF phrases = <<>> THEN st
    ELSE ProcessPhrases(ProcessPhrase(st, Head(phrases), original_text),
                        Tail(phrases), original_text)

\* find_and_define_phrases_in_text_enhanced on the service object o: the
\* result, and the phrase_index the call leaves
FindEnhanced(o, original_text) ==
    LET st == ProcessPhrases([found_terms |-> <<>>, matched_ranges |-> <<>>,
                              phrase_index |-> o.phrase_index],
                             SortedByLen(o.iter_order), original_text)
    IN  [result |-> [analysis_summary |->
                        [total_unique_phrases_found |-> Len(st.found_terms),
                         text_character_length |-> Len(original_text)],
                     found_terms |-> st.found_terms],
         phrase_index |-> st.phrase_index]

\* BaseTool.validate_parameters with info.parameters["required"]
ValidateNothing(required_params, params) == TRUE

validate_parameters(required_params, params) ==
    \A param \in required_params : param \in DOMAIN params

\* GlossaryTool.execute (lines 31-61) of a tool whose glossary_service is
\* the object id glossary_service (0: None): the response, and the objects
\* as the call leaves them
GlossaryTool_execute(glossary_service, params) ==
    IF glossary_service = 0
    THEN [response |-> ErrorResponse("glossary", << "Glossary service is not available" >>),
          services |-> services]
    ELSE IF ~ validate_parameters({ "text" }, params)
    THEN [response |-> ErrorResponse("glossary", << "Missing required parameter: text" >>),
          services |-> services]
    ELSE LET text_value == Get(params, "text", NoneValue)
         IN  IF text_value.type # "str"
             THEN [response |-> ErrorResponse("glossary", AttributeErrorText(text_value)),
                   services |-> services]
             ELSE LET out == FindEnhanced(services[glossary_service], text_value.value)
                  IN  [response |-> SuccessResponse("glossary", out.result),
                       services |-> [services EXCEPT
                                       ![glossary_service].phrase_index = out.phrase_index]]

\* The parameters of a glossary request: none, a parameter that is not
\* text, a text that is a string, a text that is none
GlossaryParameters ==
    { <<>>, [query |-> Str(<<"a">>)] }
        \cup { [text |-> v] :
                 v \in { Str(<<>>), Str(<<"a">>), Str(<<"b", " ", "A">>),
                         NoneValue, IntValue } }

\* await tool.execute(parameters) on the GlossaryTool of caller t
Execute(t) ==
    /\ callers[t].pc = "idle"
    /\ callers[t].tool >= 0
    /\ \E params \in GlossaryParameters :
          LET out == GlossaryTool_execute(callers[t].tool, params)
          IN  /\ callers' = SetCaller(t, [callers[t] EXCEPT
                                            !.params = params,
                                            !.resp = out.response])
              /\ services' = out.services
    /\ UNCHANGED << _initialized, _service, returns, resets >>
    /\ UNCHANGED << calls, rest_vars >>

\* One caller after the other: calls of get_service, the construction of
\* a GlossaryTool and its execute, by caller 1 alone and without reset
InitSequential == InitWith(SingletonDirectories)

SequentialNext ==
    \/ CallGetService(1) \/ NewGlossaryTool(1) \/ GetServiceCheck(1)
    \/ GetServiceConstruct(1) \/ GetServiceBuild(1) \/ GetServiceAssign(1)
    \/ GetServiceExcept(1) \/ GetServiceInitialized(1) \/ GetServiceReturn(1)
    \/ Execute(1)

SpecSequential == InitSequential /\ [][SequentialNext]_vars

\* Callers whose steps interleave, and reset
InitSingleton == InitWith({ TwoRecordDirectory, RaisingDirectory })

SingletonNext ==
    \E t \in Callers :
        \/ CallGetService(t) \/ NewGlossaryTool(t) \/ GetServiceCheck(t)
        \/ GetServiceConstruct(t) \/ GetServiceBuild(t) \/ GetServiceAssign(t)
        \/ GetServiceExcept(t) \/ GetServiceInitialized(t) \/ GetServiceReturn(t)
        \/ CallReset(t) \/ ResetInitialized(t) \/ Execute(t)

SpecSingleton == InitSingleton /\ [][SingletonNext]_vars

(***************************************************************************)
(* C11-C13, C20: properties of the singleton and of GlossaryTool           *)
(***************************************************************************)

\* What get_service returns for the object o its one build made: the
\* object if the constructor returned, None (0) if it raised
ValueOfBuild(id) == IF services[id].state = "ready" THEN id ELSE 0

\* C11: in a sequential run of get_service calls without reset, the
\* build is attempted exactly once, on the first call: once a call has
\* returned there is one GlossaryService object, finished or failed, and
\* every call so far has returned that object if its build succeeded and
\* None if it raised; no later call constructs another.
C11_BuildOnce ==
    /\ Len(services) <= 1
    /\ (calls >= 1 /\ callers[1].pc \in { "building", "built", "caught", "return", "idle" })
          => Len(services) = 1
    /\ (calls >= 1 /\ callers[1].pc = "idle")
          => /\ services[1].state \in { "ready", "failed" }
             /\ returns = { ValueOfBuild(1) }
             /\ _initialized

\* A second call has returned None after the build of the first raised
C11_Witness ==
    /\ calls >= 2
    /\ callers[1].pc = "idle"
    /\ Len(services) = 1
    /\ services[1].state = "failed"
    /\ returns = { 0 }

\* C12: callers that invoke get_service concurrently before the first
\* initialization has finished share one build: as long as nobody has
\* reset, at most one GlossaryService object is ever constructed and the
\* calls all return the same value.
C12_SingleFlight ==
    resets = 0 => /\ Len(services) <= 1
                  /\ Cardinality(returns) <= 1

\* The object id carries the complete index of a finished build: its
\* constructor has returned, having gone through the whole listing, and
\* its phrase_index is the index of every record of that listing
CompleteIndex(id) ==
    LET o == services[id]
        entries == LoadOrderEntries(o.listing)
    IN  /\ o.state = "ready"
        /\ o.file_idx > Len(o.listing)
        /\ DOMAIN o.phrase_index =
              UNION { _generate_aliases(entries[k].main_term) : k \in DOMAIN entries }
        /\ o.all_known_phrases = DOMAIN o.phrase_index
        /\ \A a \in DOMAIN o.phrase_index :
              LET HasAlias(e) == a \in _generate_aliases(e.main_term)
              IN  o.phrase_index[a] = SelectSeq(entries, HasAlias)

\* C13: whatever the interleaving of reset, get_service and matcher calls,
\* every service that get_service has returned, the service the singleton
\* has published and every service a GlossaryTool holds (the one its
\* matches run on) carries the complete index of one finished build.
C13_NoPartialIndex ==
    /\ \A id \in returns \ { 0 } : CompleteIndex(id)
    /\ _service > 0 => CompleteIndex(_service)
    /\ \A t \in Callers : callers[t].tool > 0 => CompleteIndex(callers[t].tool)

\* A GlossaryTool has run a match that found a term, on the service it
\* holds, and after a reset another caller is inside a build whose index
\* holds some records and not yet all
C13_Witness ==
    \E t, u \in Callers :
        /\ callers[t].tool > 0
        /\ "status" \in DOMAIN callers[t].resp
        /\ callers[t].resp.status = "success"
        /\ callers[t].resp.result.found_terms # <<>>
        /\ resets >= 1
        /\ callers[u].pc = "building"
        /\ services[callers[u].svc].state = "loading"
        /\ services[callers[u].svc].phrase_index # <<>>
        /\ callers[u].svc # callers[t].tool

\* C20: execute always returns a ToolResponse with tool_name "glossary"
\* in which exactly one of result and error is set: the error "Glossary
\* service is not available" when the tool holds no service; otherwise
\* the error "Missing required parameter: text", without result, when the
\* parameters have no text key; otherwise success with the matcher's
\* result and no error, or the error that is the text of the exception
\* the matcher raised.
C20_ExecuteResponse ==
    \A t \in Callers :
        LET r == callers[t].resp
            p == callers[t].params
            HasResult == "result" \in DOMAIN r
            HasError == "error" \in DOMAIN r
        IN  r.tool_name # "none" =>
              /\ r.tool_name = "glossary"
              /\ HasResult # HasError
              /\ IF callers[t].tool = 0
                 THEN /\ r.status = "error"
                      /\ r.error = << "Glossary service is not available" >>
                 ELSE IF "text" \notin DOMAIN p
                 THEN /\ r.status = "error"
                      /\ r.error = << "Missing required parameter: text" >>
                      /\ ~ HasResult
                 ELSE IF p.text.type = "str"
                 THEN /\ r.status = "success"
                      /\ r.result = FindEnhanced(services[callers[t].tool], p.text.value).result
                      /\ r.result.analysis_summary.text_character_length = Len(p.text.value)
                      /\ ~ HasError
                 ELSE /\ r.status = "error"
                      /\ r.error = AttributeErrorText(p.text)

\* A tool that holds a service was given a text that is None: the matcher
\* raised and the response carries the text of the exception
C20_Witness ==
    \E t \in Callers :
        /\ callers[t].tool > 0
        /\ callers[t].params = [text |-> NoneValue]
        /\ callers[t].resp = ErrorResponse("glossary", AttributeErrorText(NoneValue))

(***************************************************************************)
(* C25-C30: further properties of the two matchers                         *)
(***************************************************************************)

\* C25: at every step of the span-reporting sweep, and when it has
\* returned, no two of the accepted ranges overlap (start1 < end2 and
\* start2 < end1), and no two distinct reported spans overlap.
C25_AcceptedRangesDisjoint ==
    pc \in { "enhanced", "enhanced_done" } =>
        /\ \A i, j \in DOMAIN matched_ranges :
              i # j => ~ RangesOverlap(matched_ranges[i], matched_ranges[j])
        /\ pc = "enhanced_done" =>
              \A a, b \in ReportedRanges : a # b => ~ RangesOverlap(a, b)

\* The overlap test's text: "chronic disease" was accepted, the "disease"
\* inside it was turned away and the later "disease" accepted
C25_Witness ==
    /\ pc = "enhanced_done"
    /\ text = OverlapText
    /\ directory = ExampleDirectory
    /\ matched_ranges = << << 5, 20 >>, << 37, 44 >> >>

\* The occurrences of alias in the text as the design counts them: the
\* stretches of the text that read as the alias when lowercased and have
\* no word character right before or right after them
DelimitedOccurrences(alias, original_text) ==
    { o \in (0 .. Len(original_text)) \X (0 .. Len(original_text)) :
        /\ o[1] <= o[2]
        /\ Lower(Slice(original_text, o[1], o[2])) = alias
        /\ ~ WordAt(original_text, o[1] - 1)
        /\ ~ WordAt(original_text, o[2]) }

\* The ranges accepted when the sweep of the finished call had gone
\* through its first k phrases
AcceptedThrough(k) ==
    Range(ProcessPhrases([found_terms |-> <<>>, matched_ranges |-> <<>>,
                          phrase_index |-> phrase_index],
                         SubSeq(SortedByLen(iter_order), 1, k), text).matched_ranges)

\* C26: after a span-reporting call on a text whose lowercase has the
\* text's length (so that offsets in the two agree), every non-empty
\* alias of all_known_phrases, aliases with parentheses included, has
\* each of its delimited case-insensitive occurrences that overlaps no
\* other range accepted up to the alias's turn in the sweep reported as a
\* span under every main_term indexed at it.
C26_AllWholeWordOccurrences ==
    (pc = "enhanced_done" /\ Len(Lower(text)) = Len(text)) =>
        \A n \in DOMAIN iter_order :
            LET p == SortedByLen(iter_order)[n]
            IN  p # <<>> =>
                \A o \in DelimitedOccurrences(p, text) :
                    (\A r \in AcceptedThrough(n) : r # o => ~ RangesOverlap(o, r))
                        => \A k \in DOMAIN phrase_index[p] :
                              SpanUnder(phrase_index[p][k].main_term, o[1], o[2])

\* Whether some parenthesis of t opens inside another one
HasNestedParens(t) == \E k \in 1 .. Len(t) : ParenDepth(t, k) >= 2

\* C27: for a term whose parenthesised part itself holds parentheses,
\* _generate_aliases returns the lowercased term, <main> (everything
\* before the last top-level " (") and <alt> (the whole content up to the
\* matching ")"), and no part of the nested text on its own: for
\* "A (B (C))" exactly {"a (b (c))", "a", "b (c)"}.
C27_NestedParentheses ==
    alias_pc = "returned" =>
        /\ (HasNestedParens(Lower(alias_term)) /\ TopLevelOpens(Lower(alias_term)) # {})
              => aliases = DesignAliases(alias_term)
        /\ alias_term = NestedTerm =>
              aliases = { <<"a"," ","(","b"," ","(","c",")",")">>,
                          <<"a">>,
                          <<"b"," ","(","c",")">> }

\* The orders in which the phrases of the built service can come out of
\* sorted(list(all_known_phrases), key=len, reverse=True)
SweepOrders ==
    { SortedByLen(x) : x \in { o \in Perms(all_known_phrases) :
                                 IsLengthSorted(o, all_known_phrases) } }

\* C28: the result of a span-reporting call is the one result that the
\* text and the glossary determine: the sweep gives the same found_terms,
\* in the same order, for every order in which phrases of one length can
\* come out of the all_known_phrases set.
C28_ResultDeterministic ==
    pc = "enhanced_done" =>
        \A order \in SweepOrders :
            result.found_terms =
                ProcessPhrases([found_terms |-> <<>>, matched_ranges |-> <<>>,
                                phrase_index |-> phrase_index],
                               order, text).found_terms

\* No two positions of seq hold equal values
NoRepeats(seq) == \A i, j \in DOMAIN seq : i # j => seq[i] # seq[j]

\* C29: in the result of a span-reporting call no two FoundTerms have the
\* same main_term, every FoundTerm has a definition and a match, no
\* definition and no span is listed twice in a FoundTerm, and
\* total_unique_phrases_found is the number of FoundTerms.
C29_FoundTermsUnique ==
    pc = "enhanced_done" =>
        LET ft == result.found_terms
        IN  /\ \A i, j \in DOMAIN ft : i # j => ft[i].main_term # ft[j].main_term
            /\ \A i \in DOMAIN ft :
                  /\ Len(ft[i].definitions) >= 1
                  /\ Len(ft[i].matches_in_text) >= 1
                  /\ NoRepeats(ft[i].definitions)
                  /\ NoRepeats(ft[i].matches_in_text)
            /\ result.analysis_summary.total_unique_phrases_found = Len(ft)

\* A main_term was found through two of its aliases
FoundThroughTwoAliases ==
    /\ pc = "enhanced_done"
    /\ \E i \in DOMAIN result.found_terms :
          LET ft == result.found_terms[i]
          IN  /\ Len(ft.matches_in_text) >= 2
              /\ Lower(ft.matches_in_text[1].alias_found)
                    # Lower(ft.matches_in_text[2].alias_found)

\* A main_term indexed from two sources was found at two places: each
\* span came up once for each source and each definition once for each
\* span
C29_Witness ==
    /\ pc = "enhanced_done"
    /\ \E i \in DOMAIN result.found_terms :
          LET ft == result.found_terms[i]
          IN  /\ Len(ft.definitions) >= 2
              /\ Len(ft.matches_in_text) >= 2
              /\ ft.definitions[1].source # ft.definitions[2].source

\* C30: every phrase that is a key of the legacy matcher's result has a
\* whole-word occurrence in the lowercased text the call was given.
C30_LegacyKeysOccur ==
    pc = "legacy_done" =>
        \A k \in DOMAIN result : Search(result[k].phrase, Lower(text))

(***************************************************************************)
(* ToolRegistry                                                            *)
(***************************************************************************)

MaxRegistrations == 3

\* The tool objects: three of them, two with the same info.name
ToolObjects ==
    { [id |-> 1, name |-> "glossary"],
      [id |-> 2, name |-> "glossary"],
      [id |-> 3, name |-> "pls_evaluation"] }

ToolNames == { "glossary", "pls_evaluation", "nonexistent" }

\* Whether key is a key of the dict d, kept as its items in insertion
\* order
HasKey(d, key) == \E k \in DOMAIN d : d[k].key = key

\* A dict assignment that adds an item whatever the keys are
DictAppend(d, key, value) == Append(d, [key |-> key, value |-> value])

\* d[key] = value: the value of an existing key is replaced where the key
\* stands, a new key goes to the end
DictSet(d, key, value) ==
    IF HasKey(d, key)
    THEN [k \in DOMAIN d |-> IF d[k].key = key THEN [key |-> key, value |-> value]
                                               ELSE d[k]]
    ELSE Append(d, [key |-> key, value |-> value])

\* d.get(key): the value, or None (the tool id 0)
DictGet(d, key) ==
    IF HasKey(d, key) THEN d[CHOOSE k \in DOMAIN d : d[k].key = key].value ELSE 0

\* tool.info of the tool object with the given id
ToolInfoOf(tool_id) ==
    [name |-> (CHOOSE t \in ToolObjects : t.id = tool_id).name]

\* register(tool), lines 12-16
Register ==
    /\ Len(registrations) < MaxRegistrations
    /\ \E tool \in ToolObjects :
          /\ _tools' = DictSet(_tools, tool.name, tool.id)
          /\ registrations' = Append(registrations, tool)
    /\ answer' = [op |-> "register"]
    /\ UNCHANGED << build_vars, call_vars, alias_vars, pls_vars, single_vars,
                    store_vars, threads >>

\* get_tool(name), lines 18-20
GetTool ==
    /\ \E name \in ToolNames :
          answer' = [op |-> "get_tool", name |-> name, value |-> DictGet(_tools, name)]
    /\ UNCHANGED << _tools, registrations >>
    /\ UNCHANGED << build_vars, call_vars, alias_vars, pls_vars, single_vars,
                    store_vars, threads >>

\* list_tools(), lines 22-24
ListTools ==
    /\ answer' = [op |-> "list_tools",
                  value |-> [k \in DOMAIN _tools |-> ToolInfoOf(_tools[k].value)]]
    /\ UNCHANGED << _tools, registrations >>
    /\ UNCHANGED << build_vars, call_vars, alias_vars, pls_vars, single_vars,
                    store_vars, threads >>

\* tool_exists(name), lines 26-28
ToolExists ==
    /\ \E name \in ToolNames :
          answer' = [op |-> "tool_exists", name |-> name, value |-> HasKey(_tools, name)]
    /\ UNCHANGED << _tools, registrations >>
    /\ UNCHANGED << build_vars, call_vars, alias_vars, pls_vars, single_vars,
                    store_vars, threads >>

InitRegistry == InitWith({ {} })

SpecRegistry == InitRegistry /\ [][Register \/ GetTool \/ ListTools \/ ToolExists]_vars

\* The tool registered last under name, or None (0) if none was
LatestRegistered(name) ==
    LET at == { k \in DOMAIN registrations : registrations[k].name = name }
    IN  IF at = {} THEN 0
        ELSE registrations[CHOOSE k \in at : \A j \in at : j <= k].id

\* C21: after any sequence of register calls the registry holds one tool
\* for each name registered, the one registered last under it; get_tool
\* returns that tool, or None for a name never registered; tool_exists is
\* true exactly when get_tool is not None; list_tools returns one
\* ToolInfo for each distinct name, and [] for the empty registry.
C21_RegistryHoldsLatest ==
    /\ \A i, j \in DOMAIN _tools : i # j => _tools[i].key # _tools[j].key
    /\ { _tools[k].key : k \in DOMAIN _tools }
          = { registrations[k].name : k \in DOMAIN registrations }
    /\ \A k \in DOMAIN _tools : _tools[k].value = LatestRegistered(_tools[k].key)
    /\ answer.op = "get_tool" => answer.value = LatestRegistered(answer.name)
    /\ answer.op = "tool_exists" => (answer.value <=> DictGet(_tools, answer.name) # 0)
    /\ answer.op = "list_tools" =>
          /\ Len(answer.value)
                = Cardinality({ registrations[k].name : k \in DOMAIN registrations })
          /\ \A i, j \in DOMAIN answer.value :
                i # j => answer.value[i].name # answer.value[j].name
          /\ { answer.value[k].name : k \in DOMAIN answer.value }
                = { registrations[k].name : k \in DOMAIN registrations }
          /\ registrations = <<>> => answer.value = <<>>

\* A name was registered twice, with two tool objects, and get_tool has
\* returned the second
C21_Witness ==
    /\ Len(registrations) >= 2
    /\ registrations[1].name = registrations[2].name
    /\ registrations[1].id # registrations[2].id
    /\ answer = [op |-> "get_tool", name |-> registrations[2].name,
                 value |-> registrations[2].id]
    /\ Len(_tools) = 1

(***************************************************************************)
(* The summaries router: summaries and drafts kept under SUMMARIES_DIR     *)
(***************************************************************************)

MaxStoreOps == 4

\* The state outside SUMMARIES_DIR
outside_store == << build_vars, call_vars, alias_vars, pls_vars, single_vars,
                    registry_vars, threads >>

\* Model names and summary ids, in the order sorted() puts them
NameOrder == << "m1", "m2", "s1", "s2" >>

ModelNames == { "m1", "m2" }

SummaryIds == { "s1", "s2" }

\* sorted(names)
SortedNames(names) ==
    LET In(n) == n \in names IN SelectSeq(NameOrder, In)

\* The metrics of a draft submission: an empty list, or one dict with or
\* without summary.best_quartile_rate and word_count_status.word_count
\* (rates in percent, word counts around the limit of 850)
MetricsWith(rate, words) == << [summary |-> rate, word_count_status |-> words] >>

DraftMetrics ==
    { <<>>,
      MetricsWith([total_evaluated |-> 0], [word_count |-> 850]),
      MetricsWith([best_quartile_rate |-> 80], [status |-> "unknown"]) }
        \cup { MetricsWith([best_quartile_rate |-> r], [word_count |-> w]) :
                 r \in { 40, 80 }, w \in { 850, 851 } }

\* id_dir.exists()
FolderExists(model, summary_id) ==
    model \in DOMAIN tree /\ summary_id \in DOMAIN tree[model]

\* The tree with folder as model/summary_id (mkdir with parents, writes
\* inside the folder)
WithFolder(model, summary_id, folder) ==
    LET ids == IF model \in DOMAIN tree THEN tree[model] ELSE <<>>
        ids1 == [ i \in DOMAIN ids \cup { summary_id } |->
                    IF i = summary_id THEN folder ELSE ids[i] ]
    IN  [ m \in DOMAIN tree \cup { model } |-> IF m = model THEN ids1 ELSE tree[m] ]

\* shutil.rmtree(id_dir): the folder goes, the model directory stays
WithoutFolder(model, summary_id) ==
    [ m \in DOMAIN tree |->
        IF m = model
        THEN [ i \in DOMAIN tree[m] \ { summary_id } |-> tree[m][i] ]
        ELSE tree[m] ]

\* open(path, 'w') and json.dump: the file holds content; writes counts
\* how often the path was written
Written(files, name, content) ==
    [ n \in DOMAIN files \cup { name } |->
        IF n = name
        THEN [content |-> content,
              writes |-> IF name \in DOMAIN files THEN files[name].writes + 1 ELSE 1]
        ELSE files[n] ]

LogOf(model, summary_id) ==
    IF << model, summary_id >> \in DOMAIN draft_log
    THEN draft_log[<< model, summary_id >>] ELSE <<>>

\* save_pls_summary (lines 20-65)
SavePlsSummary ==
    /\ store_ops < MaxStoreOps
    /\ store_ops' = store_ops + 1
    /\ \E model \in ModelNames, id \in SummaryIds :
          LET old == IF FolderExists(model, id) THEN tree[model][id]
                     ELSE [sections |-> 0, drafts |-> <<>>]
          IN  /\ root' = TRUE
              /\ tree' = WithFolder(model, id, [old EXCEPT !.sections = @ + 1])
              /\ saved' = saved \cup { << model, id >> }
              /\ reply' = [op |-> "save_pls_summary", status |-> 200,
                           body |-> [status |-> "success", id |-> id]]
    /\ UNCHANGED draft_log
    /\ UNCHANGED outside_store

\* delete_pls_summary (lines 144-182)
DeletePlsSummary ==
    /\ \E model \in ModelNames, summary_id \in SummaryIds :
          IF ~ FolderExists(model, summary_id)
          THEN /\ reply' = [op |-> "delete_pls_summary", status |-> 404]
               /\ UNCHANGED << root, tree, saved, draft_log, store_ops >>
          ELSE /\ store_ops < MaxStoreOps
               /\ store_ops' = store_ops + 1
               /\ tree' = WithoutFolder(model, summary_id)
               /\ saved' = saved \ { << model, summary_id >> }
               /\ draft_log' = [ k \in DOMAIN draft_log \ { << model, summary_id >> } |->
                                   draft_log[k] ]
               /\ reply' = [op |-> "delete_pls_summary", status |-> 200,
                            body |-> [status |-> "success"]]
               /\ UNCHANGED root
    /\ UNCHANGED outside_store

\* A numbering that gives the largest number again
LastDraftNumber(numbers) ==
    IF numbers = {} THEN 1 ELSE CHOOSE n \in numbers : \A k \in numbers : k <= n

\* max(numbers) + 1 if numbers else 1 (lines 211-222)
NextDraftNumber(numbers) ==
    IF numbers = {} THEN 1 ELSE (CHOOSE n \in numbers : \A k \in numbers : k <= n) + 1

\* save_draft (lines 185-255)
SaveDraft ==
    /\ \E model \in ModelNames, summary_id \in SummaryIds,
          draft \in { "x" }, metrics \in DraftMetrics :
          IF ~ FolderExists(model, summary_id)
          THEN /\ reply' = [op |-> "save_draft", model |-> model, id |-> summary_id,
                             status |-> 404]
               /\ UNCHANGED << root, tree, saved, draft_log, store_ops >>
          ELSE LET folder == tree[model][summary_id]
                   next_number == NextDraftNumber(DOMAIN folder.drafts)
                   draft_content == [id |-> summary_id, draft |-> draft,
                                     metrics |-> metrics]
               IN  /\ store_ops < MaxStoreOps
                   /\ store_ops' = store_ops + 1
                   /\ tree' = WithFolder(model, summary_id,
                                 [folder EXCEPT
                                    !.drafts = Written(@, next_number, draft_content)])
                   /\ draft_log' =
                         [ k \in DOMAIN draft_log \cup { << model, summary_id >> } |->
                             IF k = << model, summary_id >>
                             THEN Append(LogOf(model, summary_id),
                                         [draft_number |-> next_number,
                                          content |-> draft_content])
                             ELSE draft_log[k] ]
                   /\ reply' = [op |-> "save_draft", model |-> model,
                                id |-> summary_id, status |-> 200,
                                body |-> [status |-> "success", id |-> summary_id,
                                          draft_number |-> next_number]]
                   /\ UNCHANGED << root, saved >>
    /\ UNCHANGED outside_store

\* list_summaries (lines 116-141): the directories of SUMMARIES_DIR
ListSummaries ==
    /\ reply' = IF ~ root
                THEN [op |-> "list_summaries", status |-> 200,
                      body |-> [summaries |-> <<>>, count |-> 0]]
                ELSE [op |-> "list_summaries", status |-> 200,
                      body |-> [summaries |-> SortedNames(DOMAIN tree),
                                count |-> Cardinality(DOMAIN tree)]]
    /\ UNCHANGED << root, tree, saved, draft_log, store_ops >>
    /\ UNCHANGED outside_store

\* Lines 374-392 for one draft file: its entry of drafts_info, if its
\* first metrics dict has a summary.best_quartile_rate; word_count is
\* there when word_count_status.word_count is (None is its absence)
DraftInfo(number, draft_data) ==
    IF draft_data.metrics = <<>> THEN <<>>
    ELSE LET metrics == draft_data.metrics[1]
             has_rate == /\ "summary" \in DOMAIN metrics
                         /\ "best_quartile_rate" \in DOMAIN metrics.summary
             has_words == /\ "word_count_status" \in DOMAIN metrics
                          /\ "word_count" \in DOMAIN metrics.word_count_status
         IN  IF ~ has_rate THEN <<>>
             ELSE << [number |-> number, data |-> draft_data,
                      best_quartile_rate |-> metrics.summary.best_quartile_rate]
                     @@ (IF has_words
                         THEN [word_count |-> metrics.word_count_status.word_count]
                         ELSE <<>>) >>

\* for draft_file in existing_drafts, in the order glob gave
RECURSIVE DraftsInfo(_, _)
DraftsInfo(order, drafts) ==
    IF order = <<>> THEN <<>>
    ELSE DraftInfo(Head(order), drafts[Head(order)].content)
            \o DraftsInfo(Tail(order), drafts)

\* drafts_info.sort(key=best_quartile_rate, reverse=True): stable, so x
\* goes behind every entry whose rate is at least its own
RECURSIVE InsertByRate(_, _)
InsertByRate(sorted, x) ==
    IF sorted = <<>> THEN << x >>
    ELSE IF Head(sorted).best_quartile_rate >= x.best_quartile_rate
         THEN << Head(sorted) >> \o InsertByRate(Tail(sorted), x)
         ELSE << x >> \o sorted

RECURSIVE SortedByRate(_)
SortedByRate(infos) ==
    IF infos = <<>> THEN <<>>
    ELSE InsertByRate(SortedByRate(SubSeq(infos, 1, Len(infos) - 1)), infos[Len(infos)])

\* A test that any word count passes
MeetsAnyWordCount(draft_info) == "word_count" \in DOMAIN draft_info

\* word_count is not None and word_count <= 850
MeetsWordCount(draft_info) ==
    "word_count" \in DOMAIN draft_info /\ draft_info.word_count <= 850

\* Lines 400-411: the first entry that meets the word count, or the
\* first entry
SelectedDraft(sorted) ==
    IF \E k \in DOMAIN sorted : MeetsWordCount(sorted[k])
    THEN sorted[CHOOSE k \in DOMAIN sorted :
                   /\ MeetsWordCount(sorted[k])
                   /\ \A j \in 1 .. k - 1 : ~ MeetsWordCount(sorted[j])]
    ELSE sorted[1]

\* get_best_draft (lines 325-430)
GetBestDraft ==
    /\ \E model \in ModelNames, summary_id \in SummaryIds :
          IF ~ FolderExists(model, summary_id)
          THEN reply' = [op |-> "get_best_draft", model |-> model, id |-> summary_id,
                         status |-> 404, detail |-> "summary not found"]
          ELSE IF DOMAIN tree[model][summary_id].drafts = {}
          THEN reply' = [op |-> "get_best_draft", model |-> model, id |-> summary_id,
                         status |-> 404, detail |-> "no drafts found"]
          ELSE \E existing_drafts \in Perms(DOMAIN tree[model][summary_id].drafts) :
                 LET drafts_info == DraftsInfo(existing_drafts,
                                               tree[model][summary_id].drafts)
                 IN  IF drafts_info = <<>>
                     THEN reply' = [op |-> "get_best_draft", model |-> model,
                                    id |-> summary_id, status |-> 404,
                                    detail |-> "no drafts with valid metrics found"]
                     ELSE LET selected_draft == SelectedDraft(SortedByRate(drafts_info))
                          IN  reply' =
                                [op |-> "get_best_draft", model |-> model,
                                 id |-> summary_id, status |-> 200,
                                 body |-> [draft_number |-> selected_draft.number,
                                           best_quartile_rate |->
                                               selected_draft.best_quartile_rate,
                                           data |-> selected_draft.data]
                                          @@ (IF "word_count" \in DOMAIN selected_draft
                                              THEN [word_count |-> selected_draft.word_count]
                                              ELSE <<>>)]
    /\ UNCHANGED << root, tree, saved, draft_log, store_ops >>
    /\ UNCHANGED outside_store

InitStore == InitWith({ {} })

StoreNext ==
    SavePlsSummary \/ DeletePlsSummary \/ SaveDraft \/ ListSummaries \/ GetBestDraft

SpecStore == InitStore /\ [][StoreNext]_vars

(***************************************************************************)
(* C22-C24: properties of the summaries router                             *)
(***************************************************************************)

\* C22: for every summary folder, the save_draft calls that succeeded
\* since the folder was last deleted were given the numbers 1, 2, 3, ...
\* in call order, every one of their files is there, written once and
\* holding what its call submitted; a save_draft for a summary without
\* folder answers 404 and leaves no folder and no draft behind.
C22_DraftNumbersSequential ==
    /\ \A model \in ModelNames, summary_id \in SummaryIds :
          LET log == LogOf(model, summary_id)
          IN  IF FolderExists(model, summary_id)
              THEN LET drafts == tree[model][summary_id].drafts
                   IN  /\ \A k \in DOMAIN log : log[k].draft_number = k
                       /\ DOMAIN drafts = 1 .. Len(log)
                       /\ \A n \in DOMAIN drafts :
                             /\ drafts[n].writes = 1
                             /\ drafts[n].content = log[n].content
              ELSE log = <<>>
    /\ reply.op = "save_draft" =>
          IF reply.status = 200
          THEN /\ FolderExists(reply.model, reply.id)
               /\ reply.body.draft_number = Len(LogOf(reply.model, reply.id))
          ELSE /\ reply.status = 404
               /\ ~ FolderExists(reply.model, reply.id)

\* A third draft of one summary was saved and given the number 3
C22_Witness ==
    \E model \in ModelNames, summary_id \in SummaryIds :
        /\ Len(LogOf(model, summary_id)) = 3
        /\ reply.op = "save_draft"
        /\ reply.status = 200
        /\ reply.model = model
        /\ reply.id = summary_id
        /\ reply.body.draft_number = 3

\* The stored drafts of a summary that carry a best_quartile_rate, and
\* those of them with a word count of at most 850
StoredDrafts(model, summary_id) == tree[model][summary_id].drafts

RateOf(stored) == stored.content.metrics[1].summary.best_quartile_rate

CarriesRate(stored) ==
    /\ stored.content.metrics # <<>>
    /\ "summary" \in DOMAIN stored.content.metrics[1]
    /\ "best_quartile_rate" \in DOMAIN stored.content.metrics[1].summary

WithinWordCount(stored) ==
    /\ stored.content.metrics # <<>>
    /\ "word_count_status" \in DOMAIN stored.content.metrics[1]
    /\ "word_count" \in DOMAIN stored.content.metrics[1].word_count_status
    /\ stored.content.metrics[1].word_count_status.word_count <= 850

RatedDrafts(model, summary_id) ==
    { n \in DOMAIN StoredDrafts(model, summary_id) :
        CarriesRate(StoredDrafts(model, summary_id)[n]) }

ShortRatedDrafts(model, summary_id) ==
    { n \in RatedDrafts(model, summary_id) :
        WithinWordCount(StoredDrafts(model, summary_id)[n]) }

\* C23: get_best_draft answers 404 exactly when the folder is missing,
\* holds no draft, or holds no draft with a best_quartile_rate; otherwise
\* it returns a stored draft with a best_quartile_rate: one of highest
\* rate among those of at most 850 words if there is any, else one of
\* highest rate among all of them.
C23_BestDraft ==
    reply.op = "get_best_draft" =>
        LET model == reply.model
            summary_id == reply.id
        IN  IF \/ ~ FolderExists(model, summary_id)
               \/ RatedDrafts(model, summary_id) = {}
            THEN reply.status = 404
            ELSE LET drafts == StoredDrafts(model, summary_id)
                     candidates ==
                        IF ShortRatedDrafts(model, summary_id) # {}
                        THEN ShortRatedDrafts(model, summary_id)
                        ELSE RatedDrafts(model, summary_id)
                 IN  /\ reply.status = 200
                     /\ reply.body.draft_number \in candidates
                     /\ \A n \in candidates :
                           RateOf(drafts[n]) <= RateOf(drafts[reply.body.draft_number])
                     /\ reply.body.best_quartile_rate
                           = RateOf(drafts[reply.body.draft_number])
                     /\ reply.body.data = drafts[reply.body.draft_number].content

\* get_best_draft has passed over a draft of higher rate and more than 850
\* words and returned one of lower rate and at most 850 words
C23_Witness ==
    /\ reply.op = "get_best_draft"
    /\ reply.status = 200
    /\ reply.body.draft_number \in ShortRatedDrafts(reply.model, reply.id)
    /\ \E n \in RatedDrafts(reply.model, reply.id) :
          RateOf(StoredDrafts(reply.model, reply.id)[n]) > reply.body.best_quartile_rate

\* get_best_draft has found no draft of at most 850 words and returned the
\* one of highest rate
BestRegardlessOfWordCount ==
    /\ reply.op = "get_best_draft"
    /\ reply.status = 200
    /\ ShortRatedDrafts(reply.model, reply.id) = {}
    /\ Cardinality(RatedDrafts(reply.model, reply.id)) >= 2

\* get_best_draft has answered 404 for a folder whose drafts carry no rate
BestWithoutRatedDraft ==
    /\ reply.op = "get_best_draft"
    /\ reply.status = 404
    /\ FolderExists(reply.model, reply.id)
    /\ DOMAIN StoredDrafts(reply.model, reply.id) # {}

\* The ids of the summaries saved and not since deleted
SavedIds == { summary[2] : summary \in saved }

\* C24: list_summaries returns exactly the ids of the summaries that are
\* currently saved, in sorted order, and count is the number of those
\* summaries.
C24_ListIsSavedIds ==
    reply.op = "list_summaries" =>
        /\ { reply.body.summaries[k] : k \in DOMAIN reply.body.summaries } = SavedIds
        /\ reply.body.summaries
              = SortedNames({ reply.body.summaries[k] : k \in DOMAIN reply.body.summaries })
        /\ reply.body.count = Cardinality(saved)

(***************************************************************************)
(* Matcher calls side by side: threads that share one built service        *)
(***************************************************************************)

\* The texts the threads pass: the tie, the elision and the parenthesis
\* example, and a single word
ThreadTexts == { TieText, ElisionText, ParenText, <<"a">> }

\* A term with a parenthesised part in one file and its main part as a
\* term of another: the alias "a" has two entries
SharedAliasDirectory ==
    { JsonFile("s1", << Rec(<<"a"," ","(","b",")">>, "p") >>),
      JsonFile("s2", << Rec(<<"a">>, "q") >>),
      OtherFile("README") }

ThreadDirectories == { TieDirectory, ElisionDirectory, SharedAliasDirectory }

\* The state outside the service object and the frames of the threads
outside_threads == << directory, build_pc, listing, file_idx, rec_pos,
                      all_known_phrases, iter_order, builds, prev_index,
                      call_vars, alias_vars, pls_vars, single_vars,
                      registry_vars, store_vars >>

\* One iteration of the legacy loop (lines 85-93) on the locals of a call
LegacyPhrase(st, phrase) ==
    IF Search(phrase, st.text_to_scan)
    THEN [found_phrases |-> Append(st.found_phrases,
                                   [phrase |-> phrase,
                                    definitions |-> IndexGet(st.phrase_index, phrase)]),
          phrase_index |-> IndexAfterGet(st.phrase_index, phrase),
          text_to_scan |-> Replace(st.text_to_scan, phrase)]
    ELSE st

RECURSIVE LegacyPhrases(_, _)
LegacyPhrases(st, phrases) ==
    IF phrases = <<>> THEN st
    ELSE LegacyPhrases(LegacyPhrase(st, Head(phrases)), Tail(phrases))

\* Thread t enters find_and_define_phrases_in_text_enhanced (lines 104-112)
ThreadCallEnhanced(t) ==
    /\ build_pc = "ready"
    /\ threads[t].pc = "idle"
    /\ \E original_text \in ThreadTexts :
          threads' = [threads EXCEPT ![t] =
                         [IdleThread EXCEPT !.pc = "enhanced",
                                            !.text = original_text,
                                            !.todo = SortedByLen(iter_order)]]
    /\ UNCHANGED phrase_index
    /\ UNCHANGED outside_threads

\* One iteration of its for loop over sorted_phrases (lines 114-158)
ThreadStepEnhanced(t) ==
    /\ threads[t].pc = "enhanced"
    /\ threads[t].todo # <<>>
    /\ LET st == ProcessPhrase([found_terms |-> threads[t].found_terms,
                                matched_ranges |-> threads[t].matched_ranges,
                                phrase_index |-> phrase_index],
                               Head(threads[t].todo), threads[t].text)
       IN  /\ threads' = [threads EXCEPT ![t].found_terms = st.found_terms,
                                         ![t].matched_ranges = st.matched_ranges,
                                         ![t].todo = Tail(@)]
           /\ phrase_index' = st.phrase_index
    /\ UNCHANGED outside_threads

\* Lines 160-169
ThreadReturnEnhanced(t) ==
    /\ threads[t].pc = "enhanced"
    /\ threads[t].todo = <<>>
    /\ threads' = [threads EXCEPT
                      ![t].pc = "enhanced_done",
                      ![t].result =
                          [analysis_summary |->
                              [total_unique_phrases_found |-> Len(threads[t].found_terms),
                               text_character_length |-> Len(threads[t].text)],
                           found_terms |-> threads[t].found_terms]]
    /\ UNCHANGED phrase_index
    /\ UNCHANGED outside_threads

\* Thread t enters find_and_define_phrases_in_text (lines 76-83)
ThreadCallLegacy(t) ==
    /\ build_pc = "ready"
    /\ threads[t].pc = "idle"
    /\ \E original_text \in ThreadTexts :
          threads' = [threads EXCEPT ![t] =
                         [IdleThread EXCEPT !.pc = "legacy",
                                            !.text = original_text,
                                            !.text_to_scan = Lower(original_text),
                                            !.todo = SortedByLen(iter_order)]]
    /\ UNCHANGED phrase_index
    /\ UNCHANGED outside_threads

\* One iteration of its for loop over sorted_phrases (lines 85-93)
ThreadStepLegacy(t) ==
    /\ threads[t].pc = "legacy"
    /\ threads[t].todo # <<>>
    /\ LET st == LegacyPhrase([found_phrases |-> threads[t].found_phrases,
                               phrase_index |-> phrase_index,
                               text_to_scan |-> threads[t].text_to_scan],
                              Head(threads[t].todo))
       IN  /\ threads' = [threads EXCEPT ![t].found_phrases = st.found_phrases,
                                         ![t].text_to_scan = st.text_to_scan,
                                         ![t].todo = Tail(@)]
           /\ phrase_index' = st.phrase_index
    /\ UNCHANGED outside_threads

\* Line 95
ThreadReturnLegacy(t) ==
    /\ threads[t].pc = "legacy"
    /\ threads[t].todo = <<>>
    /\ threads' = [threads EXCEPT ![t].pc = "legacy_done",
                                  ![t].result = threads[t].found_phrases]
    /\ UNCHANGED phrase_index
    /\ UNCHANGED outside_threads

\* The thread is done with what the matcher returned and free for a
\* next call
ThreadEndCall(t) ==
    /\ threads[t].pc \in { "enhanced_done", "legacy_done" }
    /\ threads' = [threads EXCEPT ![t] = IdleThread]
    /\ UNCHANGED phrase_index
    /\ UNCHANGED outside_threads

ThreadNext ==
    \E t \in Threads :
        \/ ThreadCallEnhanced(t)
        \/ ThreadStepEnhanced(t)
        \/ ThreadReturnEnhanced(t)
        \/ ThreadCallLegacy(t)
        \/ ThreadStepLegacy(t)
        \/ ThreadReturnLegacy(t)
        \/ ThreadEndCall(t)

InitThreads == InitWith(ThreadDirectories)

\* One service is built, then the threads call its matchers in any
\* interleaving of their loop iterations
SpecThreads == InitThreads /\ [][BuildNext \/ ThreadNext]_vars

(***************************************************************************)
(* C9: the matchers as readers of the shared index                         *)
(***************************************************************************)

\* The index as the build left it: every alias of a loaded record mapped
\* to the entries, in load order, of the records whose alias set holds it
\* (what C7 establishes for the state in which the build finishes)
IndexAsBuilt ==
    LET entries == LoadOrderEntries(listing)
    IN  [ a \in UNION { _generate_aliases(entries[k].main_term) : k \in DOMAIN entries } |->
            LET HasAlias(e) == a \in _generate_aliases(e.main_term)
            IN  SelectSeq(entries, HasAlias) ]

\* What the span-reporting and the legacy matcher return for a text when
\* they visit the phrases of the index in the given order, run alone
EnhancedResultOver(order, original_text) ==
    LET st == ProcessPhrases([found_terms |-> <<>>, matched_ranges |-> <<>>,
                              phrase_index |-> phrase_index],
                             order, original_text)
    IN  [analysis_summary |->
            [total_unique_phrases_found |-> Len(st.found_terms),
             text_character_length |-> Len(original_text)],
         found_terms |-> st.found_terms]

LegacyResultOver(order, original_text) ==
    LegacyPhrases([found_phrases |-> <<>>, phrase_index |-> phrase_index,
                   text_to_scan |-> Lower(original_text)], order).found_phrases

\* No step of any thread's matcher call, whatever the other threads are
\* in the middle of, changes phrase_index, all_known_phrases or the order
\* the set iterates in.
ThreadsOnlyRead ==
    [][ threads' # threads
            => UNCHANGED << phrase_index, all_known_phrases, iter_order >> ]_vars

\* A finished call returned what a call with its text returns when it
\* runs alone on this service object, whatever ran beside it.
ThreadsDoNotInterfere ==
    \A t \in Threads :
        /\ threads[t].pc = "enhanced_done" =>
              threads[t].result
                  = EnhancedResultOver(SortedByLen(iter_order), threads[t].text)
        /\ threads[t].pc = "legacy_done" =>
              threads[t].result
                  = LegacyResultOver(SortedByLen(iter_order), threads[t].text)

\* Two threads are in the middle of their loops at once, on different
\* texts, one in each matcher
ThreadsInterleaved ==
    /\ threads[1].pc = "enhanced"
    /\ threads[2].pc = "legacy"
    /\ threads[1].text # threads[2].text
    /\ threads[1].found_terms # <<>>
    /\ threads[1].todo # <<>>
    /\ threads[2].found_phrases # <<>>
    /\ threads[2].todo # <<>>

\* C9: on a built service, after any sequence or interleaving of matcher
\* calls, phrase_index and all_known_phrases have exactly the keys, the
\* entries and the entry order the build left, and what each finished
\* call returned depends only on its own text and on the index: it is
\* what the matcher returns for that text from that index, in whichever
\* order the phrase set of a service holding that index iterates.
C9_MatchersPure ==
    build_pc = "ready" =>
        /\ phrase_index = IndexAsBuilt
        /\ all_known_phrases = DOMAIN IndexAsBuilt
        /\ \A t \in Threads :
              /\ threads[t].pc = "enhanced_done" =>
                    \A order \in SweepOrders :
                        threads[t].result = EnhancedResultOver(order, threads[t].text)
              /\ threads[t].pc = "legacy_done" =>
                    \A order \in SweepOrders :
                        threads[t].result = LegacyResultOver(order, threads[t].text)

\* The part of C9 about the two structures alone
IndexIsAsBuilt ==
    build_pc = "ready" =>
        /\ phrase_index = IndexAsBuilt
        /\ all_known_phrases = DOMAIN IndexAsBuilt

====
